---- MODULE Spec2Model ----
(***************************************************************************)
(* A model of the block registry of fastapi-blocks: the BlockManager of    *)
(* src/src/fastapi_blocks/block_manager.py and the manifest model of       *)
(* src/src/fastapi_blocks/settings.py.                                     *)
(*                                                                         *)
(* Strings that the code treats as paths or module names are modelled      *)
(* structurally: a string is a sequence of path components and a component *)
(* is the sequence of its dot-separated parts, so "blocks/d1/router.py" is *)
(* << <<"blocks">>, <<"d1">>, <<"router","py">> >> and the module name     *)
(* "blocks.d1.router" is << <<"blocks","d1","router">> >>.  Block names    *)
(* and requirement names are plain strings.                                *)
(*                                                                         *)
(* The manifest constructor of pydantic is taken to accept every manifest  *)
(* of the catalogue below; pip, importlib, tomllib, tomli_w and dirhash    *)
(* are modelled by their library behaviour on the values the code hands    *)
(* them.  The hook accessors _setup_hooks, _start_hooks, _preload_hooks    *)
(* and _postload_hooks that _setup_hooks calls have no base definition in  *)
(* settings.py; DefaultHooks gives them the empty list that the override   *)
(* chain of the shipped blocks (super()._start_hooks() + [...]) rests on.  *)
(***************************************************************************)
EXTENDS Integers, Sequences, FiniteSets, TLC

VARIABLES
    fs,       \* the blocks folder: does it exist, and each directory's manifest
    files,    \* each block directory's other files: a version number per file
    disk,     \* the state directory: block_infos.toml and block_hashes.json
    mgr,      \* the process's BlockManager singleton, or NoMgr
    last,     \* what the last operation did (return value, exception, events)
    recorded, \* history: each hashed directory's content when its digest was stored
    budget,   \* how many more operations of each kind the behaviour may take
    procs     \* the threads or processes that run side by side, each one's
              \* position in its code and what it holds; NoProcs where the
              \* operations run one after the other

vars == <<fs, files, disk, mgr, last, recorded, budget, procs>>

NoProcs == <<>>

-----------------------------------------------------------------------------
(* Bounds *)

MaxSetups == 2

MaxEdits == 1

MaxStarts == 1

-----------------------------------------------------------------------------
(* Values *)

\* Python's None.  No path has a component without parts, so this is no path.
None == << <<>> >>

\* settings.py:34, load_order : int = 9
DefaultLoadOrder == 9

EmptyDict == [x \in {} |-> TRUE]

Put(d, k, v) == [x \in (DOMAIN d) \cup {k} |-> IF x = k THEN v ELSE d[x]]

\* dict.get(k, default)
Get(d, k, default) == IF k \in DOMAIN d THEN d[k] ELSE default

\* x in list
InList(x, s) == \E i \in 1..Len(s) : s[i] = x

Truthy(v) == v # None /\ v # <<>>

-----------------------------------------------------------------------------
(* Paths *)

Root == <<"/">>

Dot == <<"", "">>

DotDot == <<"", "", "">>

\* One file or directory name, split at its dots.
File(stem, ext) == << <<stem, ext>> >>

Name(n) == << <<n>> >>

IsAbs(p) == Len(p) > 0 /\ p[1] = Root

\* os.path.join(a, b)
Join(a, b) == IF IsAbs(b) THEN b ELSE a \o b

RECURSIVE CommonLen(_, _)
CommonLen(p, q) ==
    IF Len(p) = 0 \/ Len(q) = 0 \/ Head(p) # Head(q) THEN 0
    ELSE 1 + CommonLen(Tail(p), Tail(q))

\* os.path.relpath(path, start), both absolute
RelPath(path, start) ==
    LET k == CommonLen(path, start)
        ups == [i \in 1..(Len(start) - k) |-> DotDot]
        rest == SubSeq(path, k + 1, Len(path))
    IN  IF Len(ups) = 0 /\ Len(rest) = 0 THEN <<Dot>> ELSE ups \o rest

RECURSIVE Flatten(_)
Flatten(p) == IF Len(p) = 0 THEN <<>> ELSE Head(p) \o Flatten(Tail(p))

\* Path.cwd() when the package is imported: working_dir and project_path
WorkingDir == <<Root, <<"app">>>>

BlocksFolder == Name("blocks")

\* BlockSettingsBase._path_to_module (working_path = project_path)
PathToModule(path) ==
    IF ~Truthy(path) THEN None
    ELSE LET abs == IF IsAbs(path) THEN path ELSE Join(WorkingDir, path)
             rel == RelPath(abs, WorkingDir)
             lastc == rel[Len(rel)]
             endsPy == Len(lastc) >= 2 /\ lastc[Len(lastc)] = "py"
             stripped == IF endsPy
                         THEN [rel EXCEPT ![Len(rel)] = SubSeq(lastc, 1, Len(lastc) - 1)]
                         ELSE rel
         IN  <<Flatten(stripped)>>

-----------------------------------------------------------------------------
(* Ordered dictionaries (a Python dict whose insertion order the code or   *)
(* the TOML writer depends on): a sequence of <<key, value>> pairs.        *)

ODKeys(od) == {od[i][1] : i \in 1..Len(od)}

ODHas(od, k) == k \in ODKeys(od)

ODGet(od, k) == od[CHOOSE i \in 1..Len(od) : od[i][1] = k][2]

ODPut(od, k, v) ==
    IF ODHas(od, k)
    THEN [i \in 1..Len(od) |-> IF od[i][1] = k THEN <<k, v>> ELSE od[i]]
    ELSE Append(od, <<k, v>>)

-----------------------------------------------------------------------------
(* The manifest model, settings.py *)

\* The declared fields of BlockSettingsBase that get_dict keeps, in
\* declaration order, followed by the one extra key the catalogue uses.
FieldOrder ==
    <<"name", "version", "block_path", "requirements", "dependancies",
      "statics", "template_router", "templates_dir", "api_router",
      "extra_block_settings", "load_order", "module", "is_main">>

PathFields == {"statics", "templates_dir"}

ModuleFields == {"template_router", "api_router", "extra_block_settings"}

\* working_dir / blocks_folder / item
BlockPath(d) == WorkingDir \o BlocksFolder \o Name(d)

\* settings_class(**block_settings_data, block_path=block_path): declared
\* fields take the manifest's value or their default, undeclared keys are
\* kept (extra='allow'), and __init__ sets module.
BlockSettingsBase(raw, blockPath) ==
    LET declared ==
            [name |-> raw.name,
             version |-> raw.version,
             block_path |-> blockPath,
             requirements |-> Get(raw, "requirements", <<>>),
             dependancies |-> Get(raw, "dependancies", <<>>),
             statics |-> Get(raw, "statics", None),
             template_router |-> Get(raw, "template_router", None),
             templates_dir |-> Get(raw, "templates_dir", None),
             api_router |-> Get(raw, "api_router", None),
             extra_block_settings |-> Get(raw, "extra_block_settings", None),
             load_order |-> Get(raw, "load_order", DefaultLoadOrder),
             module |-> PathToModule(blockPath)]
    IN  [k \in (DOMAIN declared) \cup (DOMAIN raw) |->
            IF k \in DOMAIN declared THEN declared[k] ELSE raw[k]]

\* serialize_to_path
SerializeToPath(s, value) ==
    IF Truthy(value) THEN Join(s.block_path, value) ELSE None

\* serialize_path_to_fields
SerializePathToFields(s, value) ==
    IF ~Truthy(value) THEN None ELSE PathToModule(Join(s.block_path, value))

\* get_dict: model_dump keeps every field, None included
GetDict(s) ==
    [k \in DOMAIN s |->
        IF k \in PathFields THEN SerializeToPath(s, s[k])
        ELSE IF k \in ModuleFields THEN SerializePathToFields(s, s[k])
        ELSE s[k]]

-----------------------------------------------------------------------------
(* The file system under the working directory *)

Dirs == {"d1", "d2"}

\* projects_root_dir.iterdir(): the order in which the directories come
DirOrder == <<"d1", "d2">>

NoDir == [absent |-> TRUE]

\* The block_config.toml documents a directory may hold.  A block that
\* declares extra_block_settings ships a settings.py like
\* default_blocks/homepage_block/settings.py.
BlogToml ==
    [name |-> "blog", version |-> 1,
     requirements |-> <<"pkgA">>,
     statics |-> Name("static"),
     template_router |-> File("router", "py"),
     templates_dir |-> Name("templates"),
     api_router |-> File("api_router", "py"),
     extra_block_settings |-> File("settings", "py")]

\* the same block after an edit of its manifest
BlogEditedToml ==
    [name |-> "blog", version |-> 1,
     requirements |-> <<"pkgB", "pkgA">>,
     statics |-> Name("static"),
     template_router |-> File("router", "py"),
     templates_dir |-> Name("templates"),
     api_router |-> File("api_router", "py"),
     extra_block_settings |-> File("settings", "py"),
     load_order |-> 1,
     is_main |-> TRUE]

CommentsToml ==
    [name |-> "comments", version |-> 1,
     requirements |-> <<"pkgB", "pkgA">>,
     dependancies |-> <<"blog">>,
     statics |-> Name("static"),
     template_router |-> File("router", "py"),
     templates_dir |-> Name("templates"),
     api_router |-> File("api_router", "py"),
     extra_block_settings |-> File("settings", "py"),
     load_order |-> 1]

\* a block with a settings extension and templates but no statics or routers
PartialToml ==
    [name |-> "comments", version |-> 1,
     templates_dir |-> Name("templates"),
     extra_block_settings |-> File("settings", "py")]

\* the smallest manifest: every optional field is left out
BareToml == [name |-> "comments", version |-> 1]

Manifests == {BlogToml, BlogEditedToml, CommentsToml, PartialToml, BareToml}

\* importlib.import_module(ref) finds a module: the settings.py of a
\* directory whose manifest declares it
SettingsModule(d) == PathToModule(Join(BlockPath(d), File("settings", "py")))

ModuleExists(tree, ref) ==
    \E d \in Dirs :
        /\ tree.dir[d] # NoDir
        /\ "extra_block_settings" \in DOMAIN tree.dir[d]
        /\ ref = SettingsModule(d)

\* Settings._start_hooks of an extension module: super()._start_hooks() + [_say_hi]
OwnStartHooks(ref) == << [module |-> ref, fn |-> "_say_hi"] >>

\* The settings.py of the second directory also overrides _preload_hooks
\* and _postload_hooks the same way, with a function of its own each.
OwnPreloadHooks(ref) ==
    IF ref = SettingsModule("d2") THEN << [module |-> ref, fn |-> "_pre"] >> ELSE <<>>

OwnPostloadHooks(ref) ==
    IF ref = SettingsModule("d2") THEN << [module |-> ref, fn |-> "_post"] >> ELSE <<>>

\* ... and _setup_hooks, with a function to run at setup
OwnSetupHooks(ref) ==
    IF ref = SettingsModule("d2") THEN << [module |-> ref, fn |-> "_on_setup"] >> ELSE <<>>

\* what the accessor of a group adds to super()'s list in a settings.py
OwnHooks(ref, group) ==
    IF group = "_setup_hooks" THEN OwnSetupHooks(ref)
    ELSE IF group = "_start_hooks" THEN OwnStartHooks(ref)
    ELSE IF group = "_block_preload_hooks" THEN OwnPreloadHooks(ref)
    ELSE IF group = "_block_postload_hooks" THEN OwnPostloadHooks(ref)
    ELSE <<>>

-----------------------------------------------------------------------------
(* _load_block_config, block_manager.py:356-421 *)

NoExc == "none"

\* a dependancy check that finds nothing missing
MissingDependanciesNone(info, settings) == {}

\* the dependancy check, block_manager.py:377-380: the declared names that
\* are not keys of block_manager_info["blocks"]
MissingDependancies(info, settings) ==
    {settings.dependancies[i] : i \in 1..Len(settings.dependancies)}
        \ ODKeys(info.blocks)

\* a merge in which the manifest's values replace the stored ones
MergeBlockInfoOverwrite(stored, dict) ==
    [k \in (DOMAIN stored) \cup (DOMAIN dict) |->
        IF k \in DOMAIN dict THEN dict[k] ELSE stored[k]]

\* block_manager.py:385-388: a known block only gains the keys its stored
\* record lacks
MergeBlockInfo(stored, dict) ==
    [k \in (DOMAIN stored) \cup (DOMAIN dict) |->
        IF k \in DOMAIN stored THEN stored[k] ELSE dict[k]]

\* a registration that adds a record whether or not the name is known
RegisterBlockAgain(info, name, dict) ==
    [info EXCEPT !.blocks = Append(@, <<name, dict>>)]

RegisterBlock(info, name, dict) ==
    IF ~ODHas(info.blocks, name)
    THEN [info EXCEPT !.blocks = Append(@, <<name, dict>>)]
    ELSE [info EXCEPT !.blocks =
            ODPut(@, name, MergeBlockInfo(ODGet(@, name), dict))]

\* pip run whatever allow_installs says
RunsPipAlways(allowInstalls) == TRUE

\* block_manager.py:404: is pip run for a requirement that is new?
RunsPip(allowInstalls) == allowInstalls

\* a test that takes every requirement for a new one
IsNewRequirementAlways(installs, r) == TRUE

\* block_manager.py:401: is the requirement new?
IsNewRequirement(installs, r) == ~InList(r, installs)

\* block_manager.py:400-414, the loop over block_settings.requirements.
\* acc = [installs, restart, events, exc]; the loop ends at the first
\* installation that fails (raise e).
RECURSIVE InstallLoop(_, _, _, _)
InstallLoop(reqs, acc, allowInstalls, pipFails) ==
    IF Len(reqs) = 0 \/ acc.exc # NoExc THEN acc
    ELSE LET r == Head(reqs)
             new == IsNewRequirement(acc.installs, r)
             attempted == new /\ RunsPip(allowInstalls)
             failed == attempted /\ r \in pipFails
             ev == [req |-> r, known |-> InList(r, acc.installs),
                    allow |-> allowInstalls,
                    attempted |-> attempted, failed |-> failed]
         IN  InstallLoop(Tail(reqs),
                [installs |-> IF new THEN Append(acc.installs, r) ELSE acc.installs,
                 restart |-> acc.restart \/ new,
                 events |-> Append(acc.events, ev),
                 exc |-> IF failed THEN "InstallFailure" ELSE NoExc],
                allowInstalls, pipFails)

\* The result of resolving one block directory is [info, exc, ret, ev]: the
\* registry as the call leaves it, the exception it raised (or NoExc), its
\* return value, and a record of what it did.  A registry document that
\* lacks a collection makes the first subscript of that collection raise
\* KeyError.
Raise(info, exc, ev) == [info |-> info, exc |-> exc, ret |-> FALSE, ev |-> ev]

\* what a resolution starts from: the names and installs the registry holds
ResolveEvent(info, d, settings) ==
    [dir |-> d, name |-> settings.name,
     deps |-> {settings.dependancies[i] : i \in 1..Len(settings.dependancies)},
     known |-> IF "blocks" \in DOMAIN info THEN ODKeys(info.blocks) ELSE {},
     requirements |-> settings.requirements,
     installs |-> IF "installs" \in DOMAIN info
                  THEN {info.installs[i] : i \in 1..Len(info.installs)}
                  ELSE {},
     registered |-> FALSE, reqs |-> <<>>]

\* block_manager.py:417-419: templates_dir joins the list when it is new
IsNewTemplatesDir(info, dict) ==
    /\ "templates_dir" \in DOMAIN dict
    /\ ~InList(dict.templates_dir, info.templates_dir)

LoadTemplatesDir(info, dict, restart, ev) ==
    IF "templates_dir" \notin DOMAIN info THEN Raise(info, "KeyError", ev)
    ELSE [info |-> IF IsNewTemplatesDir(info, dict)
                   THEN [info EXCEPT !.templates_dir = Append(@, dict.templates_dir)]
                   ELSE info,
          exc |-> NoExc,
          ret |-> restart \/ IsNewTemplatesDir(info, dict),
          ev |-> ev]

\* block_manager.py:396-414: the requirements, then what follows the loop
AfterInstalls(info, dict, ev, loop) ==
    IF loop.exc # NoExc
    THEN Raise([info EXCEPT !.installs = loop.installs], loop.exc,
               [ev EXCEPT !.reqs = loop.events])
    ELSE LoadTemplatesDir([info EXCEPT !.installs = loop.installs], dict,
                          loop.restart, [ev EXCEPT !.reqs = loop.events])

LoadRequirements(info, settings, dict, restart, ev, allowInstalls, pipFails) ==
    IF settings.requirements = <<>> THEN LoadTemplatesDir(info, dict, restart, ev)
    ELSE IF "installs" \notin DOMAIN info THEN Raise(info, "KeyError", ev)
    ELSE AfterInstalls(info, dict, ev,
            InstallLoop(settings.requirements,
                [installs |-> info.installs, restart |-> restart,
                 events |-> <<>>, exc |-> NoExc],
                allowInstalls, pipFails))

\* block_manager.py:391-393: the settings extension joins the list when new
IsNewExtraSettings(info, dict) ==
    /\ "extra_block_settings" \in DOMAIN dict
    /\ ~InList(dict.extra_block_settings, info.extra_block_settings)

LoadExtraSettings(info, settings, dict, ev, allowInstalls, pipFails) ==
    IF "extra_block_settings" \notin DOMAIN info THEN Raise(info, "KeyError", ev)
    ELSE LoadRequirements(
            IF IsNewExtraSettings(info, dict)
            THEN [info EXCEPT !.extra_block_settings =
                     Append(@, dict.extra_block_settings)]
            ELSE info,
            settings, dict, IsNewExtraSettings(info, dict), ev,
            allowInstalls, pipFails)

\* a resolution that registers the block before it checks the dependancies
LoadBlockInfoRegisterFirst(info, d, settings, dict, allowInstalls, pipFails) ==
    IF "blocks" \notin DOMAIN info
    THEN Raise(info, "KeyError", ResolveEvent(info, d, settings))
    ELSE IF MissingDependancies(info, settings) # {}
    THEN Raise(RegisterBlock(info, settings.name, dict), "MissingDependency",
               ResolveEvent(info, d, settings))
    ELSE LoadExtraSettings(RegisterBlock(info, settings.name, dict), settings, dict,
            [ResolveEvent(info, d, settings) EXCEPT !.registered = TRUE],
            allowInstalls, pipFails)

\* block_manager.py:376-388: the dependancy check, then the registration
LoadBlockInfo(info, d, settings, dict, allowInstalls, pipFails) ==
    IF "blocks" \notin DOMAIN info
    THEN Raise(info, "KeyError", ResolveEvent(info, d, settings))
    ELSE IF MissingDependancies(info, settings) # {}
    THEN Raise(info, "MissingDependency", ResolveEvent(info, d, settings))
    ELSE LoadExtraSettings(RegisterBlock(info, settings.name, dict), settings, dict,
            [ResolveEvent(info, d, settings) EXCEPT !.registered = TRUE],
            allowInstalls, pipFails)

\* _load_block_config(block_config_path, block_path)
LoadBlockConfig(info, d, raw, allowInstalls, pipFails) ==
    LoadBlockInfo(info, d, BlockSettingsBase(raw, BlockPath(d)),
                  GetDict(BlockSettingsBase(raw, BlockPath(d))),
                  allowInstalls, pipFails)

-----------------------------------------------------------------------------
(* The integrity verifier, block_manager.py:315-354 *)

NoFile == [exists |-> FALSE]

\* Path(block_path).name, the key of a directory in block_hashes.json
Basename(path) == <<path[Len(path)]>>

\* the block directory a path names, if it names one that exists
IsBlockDir(tree, path) ==
    \E d \in Dirs : path = BlockPath(d) /\ tree.exists /\ tree.dir[d] # NoDir

DirOf(path) == CHOOSE d \in Dirs : path = BlockPath(d)

\* a digest of the *.py and *.toml files alone
DirHashPyToml(tree, content, path) ==
    [toml |-> tree.dir[DirOf(path)],
     files |-> [n \in {"py"} |-> content[DirOf(path)][n]]]

\* dirhash(block_path, 'sha256', match=["*.py", "*.toml", "*.html", "*.js"]):
\* a digest of the tracked files alone (block_config.toml is one of them),
\* taken to be free of collisions
DirHash(tree, content, path) ==
    [toml |-> tree.dir[DirOf(path)],
     files |-> [n \in {"py", "html", "js"} |-> content[DirOf(path)][n]]]

\* json.load(hashes_file) if the file exists, else {}
ReadHashes(store) == IF store.hashes = NoFile THEN EmptyDict ELSE store.hashes.map

\* a write that reads the file again and so keeps what is in it now
WriteHashesMerging(store, hashes, tree, content, path) ==
    [store |-> [store EXCEPT !.hashes =
                   [exists |-> TRUE,
                    map |-> Put(ReadHashes(store), Basename(path),
                                DirHash(tree, content, path))]],
     exc |-> NoExc]

\* block_manager.py:350-354: the entry of the block is set in the hashes
\* that were read, and the whole file is written from them
WriteHashes(store, hashes, tree, content, path) ==
    [store |-> [store EXCEPT !.hashes =
                   [exists |-> TRUE,
                    map |-> Put(hashes, Basename(path),
                                DirHash(tree, content, path))]],
     exc |-> NoExc]

\* _save_block_hashes(block_path): dirhash needs the directory, and
\* open(hashes_file, 'w') needs the state directory, which only
\* _save_settings_toml creates
SaveBlockHashes(store, tree, content, path) ==
    IF ~IsBlockDir(tree, path)
    THEN [store |-> store, exc |-> "DirhashError"]
    ELSE IF ~store.dir
    THEN [store |-> store, exc |-> "FileNotFoundError"]
    ELSE WriteHashes(store, ReadHashes(store), tree, content, path)

\* a verifier that always compares, and fails a directory without a digest
VerifyBlockHashStrict(verifyBlocks, store, tree, content, path) ==
    IF Basename(path) \notin DOMAIN ReadHashes(store) \/ ~IsBlockDir(tree, path)
    THEN [exc |-> NoExc, ret |-> FALSE]
    ELSE [exc |-> NoExc,
          ret |-> DirHash(tree, content, path) = ReadHashes(store)[Basename(path)]]

\* _verify_block_hash(block_path): [exc, ret]
VerifyBlockHash(verifyBlocks, store, tree, content, path) ==
    IF ~verifyBlocks THEN [exc |-> NoExc, ret |-> TRUE]
    ELSE IF Basename(path) \notin DOMAIN ReadHashes(store)
    THEN [exc |-> NoExc, ret |-> TRUE]
    ELSE IF ~IsBlockDir(tree, path)
    THEN [exc |-> "DirhashError", ret |-> FALSE]
    ELSE [exc |-> NoExc,
          ret |-> DirHash(tree, content, path) = ReadHashes(store)[Basename(path)]]

-----------------------------------------------------------------------------
(* _build_block_settings_class and the hook accessors *)

RECURSIVE ImportAll(_, _)
\* block_manager.py:203-206: the first module that cannot be imported ends
\* the loop with its exception
ImportAll(tree, refs) ==
    IF Len(refs) = 0 THEN [exc |-> NoExc, classes |-> <<>>]
    ELSE IF Head(refs) = None THEN [exc |-> "AttributeError", classes |-> <<>>]
    ELSE IF ~ModuleExists(tree, Head(refs))
    THEN [exc |-> "ImportError", classes |-> <<>>]
    ELSE LET rest == ImportAll(tree, Tail(refs))
         IN  [rest EXCEPT !.classes = <<Head(refs)>> \o @]

BuildBlockSettingsClass(info, tree) ==
    IF "extra_block_settings" \notin DOMAIN info
    THEN [exc |-> "KeyError", classes |-> <<>>]
    ELSE ImportAll(tree, info.extra_block_settings)

HookGroups ==
    <<"_setup_hooks", "_start_hooks", "_block_preload_hooks", "_block_postload_hooks">>

\* the accessor a settings class inherits when no extension overrides it
DefaultHooks == <<>>

RECURSIVE BlockHooks(_, _)
\* DynamicBlockSettings(*extra_settings_classes, BlockSettingsBase): each
\* extension's accessor returns super()'s list followed by its own hooks,
\* and super() is the next class of the list
BlockHooks(classes, group) ==
    IF Len(classes) = 0 THEN DefaultHooks
    ELSE BlockHooks(Tail(classes), group) \o OwnHooks(Head(classes), group)

-----------------------------------------------------------------------------
(* The hook registry, block_manager.py:511-539 *)

\* a test that takes every function for a new one
IsNewHookAlways(fns, fn) == TRUE

\* is the function name new under its module?  (block_manager.py:536)
IsNewHook(fns, fn) == ~InList(fn, fns)

RECURSIVE AttachHook(_, _, _)
\* _attach_hook(hook_group, block_hooks); acc = [info, new, exc]
AttachHook(acc, group, hooks) ==
    IF Len(hooks) = 0 \/ acc.exc # NoExc THEN acc
    ELSE IF "hooks" \notin DOMAIN acc.info THEN [acc EXCEPT !.exc = "KeyError"]
    ELSE LET h == Head(hooks)
             hs == acc.info.hooks
             g0 == IF group \in DOMAIN hs THEN hs[group] ELSE <<>>
             g1 == IF ODHas(g0, h.module) THEN g0 ELSE Append(g0, <<h.module, <<>>>>)
             fns == ODGet(g1, h.module)
             isNew == IsNewHook(fns, h.fn)
             g2 == IF isNew THEN ODPut(g1, h.module, Append(fns, h.fn)) ELSE g1
         IN  AttachHook([info |-> [acc.info EXCEPT !.hooks = Put(hs, group, g2)],
                         new |-> acc.new \/ isNew, exc |-> NoExc],
                        group, Tail(hooks))

RECURSIVE AttachGroups(_, _, _)
\* block_manager.py:454-462: the four accessors, then the four attaches
AttachGroups(acc, classes, i) ==
    IF i > Len(HookGroups) \/ acc.exc # NoExc THEN acc
    ELSE AttachGroups(AttachHook(acc, HookGroups[i], BlockHooks(classes, HookGroups[i])),
                      classes, i + 1)

\* does the directory hold a block_config.toml?
HasConfig(tree, d) == tree.dir[d] # NoDir

RECURSIVE SetupHooksLoop(_, _, _, _, _)
\* acc = [info, new, exc]; an exception inside the try is swallowed when
\* allow_block_import_failure is set, and the attaches made before it stay
SetupHooksLoop(acc, tree, classes, allowFail, i) ==
    IF i > Len(DirOrder) \/ acc.exc # NoExc THEN acc
    ELSE IF ~HasConfig(tree, DirOrder[i])
    THEN SetupHooksLoop(acc, tree, classes, allowFail, i + 1)
    ELSE LET r == AttachGroups(acc, classes, 1)
         IN  IF r.exc # NoExc /\ allowFail
             THEN SetupHooksLoop([r EXCEPT !.exc = NoExc, !.new = acc.new],
                                 tree, classes, allowFail, i + 1)
             ELSE SetupHooksLoop(r, tree, classes, allowFail, i + 1)

\* _setup_hooks, block_manager.py:424-471: [info, new, exc]
SetupHooks(info, tree, allowFail) ==
    LET cls == BuildBlockSettingsClass(info, tree)
    IN  IF cls.exc # NoExc THEN [info |-> info, new |-> FALSE, exc |-> cls.exc]
        ELSE IF ~tree.exists
        THEN [info |-> info, new |-> FALSE, exc |-> "NoBlocksFolder"]
        ELSE SetupHooksLoop([info |-> info, new |-> FALSE, exc |-> NoExc],
                            tree, cls.classes, allowFail, 1)

-----------------------------------------------------------------------------
(* _resolve_hooks and _run_hooks, block_manager.py:473-509.  A resolved     *)
(* hook is the pair [module, fn] of the function found.  What the modules   *)
(* on disk hold when they are imported is given by code = [missing, gone,   *)
(* notcallable]: the modules that cannot be imported, and the [module, fn]  *)
(* pairs whose attribute is absent or is no function.                       *)

\* self.block_manager_info.get("hooks", {}).get(group, {})
HooksOf(info, group) ==
    IF "hooks" \in DOMAIN info /\ group \in DOMAIN info.hooks
    THEN info.hooks[group] ELSE <<>>

RECURSIVE ResolveModule(_, _, _)
\* block_manager.py:489-494: getattr on an absent attribute raises
\* AttributeError, which leaves the loop over the module's names
ResolveModule(module, fns, code) ==
    IF Len(fns) = 0 THEN <<>>
    ELSE IF [module |-> module, fn |-> Head(fns)] \in code.gone THEN <<>>
    ELSE IF [module |-> module, fn |-> Head(fns)] \in code.notcallable
    THEN ResolveModule(module, Tail(fns), code)
    ELSE <<[module |-> module, fn |-> Head(fns)]>>
            \o ResolveModule(module, Tail(fns), code)

RECURSIVE ResolveHooks(_, _)
\* _resolve_hooks(hooks)
ResolveHooks(hooks, code) ==
    IF Len(hooks) = 0 THEN <<>>
    ELSE (IF Len(Head(hooks)[2]) = 0 \/ Head(hooks)[1] \in code.missing
          THEN <<>>
          ELSE ResolveModule(Head(hooks)[1], Head(hooks)[2], code))
            \o ResolveHooks(Tail(hooks), code)

\* whom a hook is run for: the block of its block_info, or the start phase
CtxName(ctx) == IF "block_info" \in DOMAIN ctx THEN ctx.block_info.name ELSE "start"

RECURSIVE RunHooks(_, _, _)
\* _run_hooks(hooks, **kwargs): [calls, exc].  raising holds the
\* [hook, on] pairs of the functions that raise for that block.
RunHooks(hooks, ctx, raising) ==
    IF Len(hooks) = 0 THEN [calls |-> <<>>, exc |-> NoExc]
    ELSE IF [hook |-> Head(hooks), on |-> CtxName(ctx)] \in raising
    THEN [calls |-> <<[hook |-> Head(hooks), kwargs |-> ctx]>>, exc |-> "HookError"]
    ELSE [RunHooks(Tail(hooks), ctx, raising)
             EXCEPT !.calls = <<[hook |-> Head(hooks), kwargs |-> ctx]>> \o @]

-----------------------------------------------------------------------------
(* _setup_blocks, block_manager.py:265-298 *)

\* block_manager.py:291-294: does an exception raised for one directory end
\* the run?
EndsRun(allowFail, exc) == ~allowFail

\* block_manager.py:284-294, one directory: r is what _load_block_config
\* did and h what _save_block_hashes did; the result is the loop's next
\* acc = [info, store, ret, exc, events]
AfterBlock(acc, d, r, h, allowFail) ==
    [info |-> r.info,
     store |-> h.store,
     ret |-> IF r.exc = NoExc THEN acc.ret \/ r.ret ELSE acc.ret,
     exc |-> IF r.exc # NoExc
             THEN (IF EndsRun(allowFail, r.exc) THEN r.exc ELSE NoExc)
             ELSE IF h.exc # NoExc /\ EndsRun(allowFail, h.exc) THEN h.exc
             ELSE NoExc,
     events |-> Append(acc.events,
                   [r.ev EXCEPT !.dir = d]
                       @@ [exc |-> IF r.exc # NoExc THEN r.exc ELSE h.exc,
                           ret |-> r.ret])]

\* a setup that stores the digest of every block it resolved, asked or not
HashBlockAlways(acc, tree, content, d, r, opts) ==
    AfterBlock(acc, d, r,
        IF r.exc = NoExc
        THEN SaveBlockHashes(acc.store, tree, content, BlockPath(d))
        ELSE [store |-> acc.store, exc |-> NoExc],
        opts.allowFail)

\* block_manager.py:288-289: the digest is stored when the block resolved
HashBlock(acc, tree, content, d, r, opts) ==
    AfterBlock(acc, d, r,
        IF r.exc = NoExc /\ opts.saveHashes
        THEN SaveBlockHashes(acc.store, tree, content, BlockPath(d))
        ELSE [store |-> acc.store, exc |-> NoExc],
        opts.allowFail)

RECURSIVE SetupBlocksLoop(_, _, _, _, _)
\* acc = [info, store, ret, exc, events]
\* opts = [allowFail, allowInstalls, saveHashes, pipFails]
SetupBlocksLoop(acc, tree, content, opts, i) ==
    IF i > Len(DirOrder) \/ acc.exc # NoExc THEN acc
    ELSE IF ~HasConfig(tree, DirOrder[i])
    THEN SetupBlocksLoop(acc, tree, content, opts, i + 1)
    ELSE SetupBlocksLoop(
            HashBlock(acc, tree, content, DirOrder[i],
                LoadBlockConfig(acc.info, DirOrder[i], tree.dir[DirOrder[i]],
                                opts.allowInstalls, opts.pipFails),
                opts),
            tree, content, opts, i + 1)

\* [info, store, ret, exc, events]
SetupBlocks(info, store, tree, content, opts) ==
    LET cls == BuildBlockSettingsClass(info, tree)
        start == [info |-> info, store |-> store, ret |-> FALSE,
                  exc |-> NoExc, events |-> <<>>]
    IN  IF cls.exc # NoExc THEN [start EXCEPT !.exc = cls.exc]
        ELSE IF ~tree.exists THEN [start EXCEPT !.exc = "NoBlocksFolder"]
        ELSE SetupBlocksLoop(start, tree, content, opts, 1)

-----------------------------------------------------------------------------
(* block_infos.toml: tomli_w.dump and tomllib.load *)

NoDoc == [exists |-> FALSE]

\* tomli_w writes a table's plain values first, then its sub-tables
LiteralKeys == <<"installs", "extra_block_settings", "templates_dir", "statics">>

Restrict(f, keys) == [k \in (DOMAIN f) \cap keys |-> f[k]]

Prefix(seq, n) == {seq[i] : i \in 1..n}

\* the values tomli_w cannot write: a None in a list of paths, or a field
\* of a block that is None
LiteralHasNone(info, k) ==
    /\ k \in (DOMAIN info) \cap {"extra_block_settings", "templates_dir"}
    /\ InList(None, info[k])

FieldIsNone(rec, k) ==
    /\ k \in (DOMAIN rec) \cap (PathFields \cup ModuleFields)
    /\ rec[k] = None

BlockHasNone(rec) == \E i \in 1..Len(FieldOrder) : FieldIsNone(rec, FieldOrder[i])

FirstIndex(S) == CHOOSE i \in S : \A j \in S : i <= j

\* What tomli_w.dump(info, f) leaves in the file opened with 'wb': the whole
\* document, or, when it meets a None, the lines written before it raised.
TomlDump(info) ==
    LET badLit(i) == LiteralHasNone(info, LiteralKeys[i])
        blocks == IF "blocks" \in DOMAIN info THEN info.blocks ELSE <<>>
        badBlock(i) == BlockHasNone(blocks[i][2])
    IN  IF \E i \in 1..Len(LiteralKeys) : badLit(i)
        THEN LET i == FirstIndex({k \in 1..Len(LiteralKeys) : badLit(k)})
             IN  [exc |-> "TypeError",
                  doc |-> Restrict(info, Prefix(LiteralKeys, i - 1))]
        ELSE IF \E i \in 1..Len(blocks) : badBlock(i)
        THEN LET i == FirstIndex({k \in 1..Len(blocks) : badBlock(k)})
                 rec == blocks[i][2]
                 badField(j) == FieldIsNone(rec, FieldOrder[j])
                 j == FirstIndex({k \in 1..Len(FieldOrder) : badField(k)})
                 cut == Restrict(rec, Prefix(FieldOrder, j - 1))
                 lits == Restrict(info, Prefix(LiteralKeys, Len(LiteralKeys)))
             IN  [exc |-> "TypeError",
                  doc |-> Put(lits, "blocks",
                              Append(SubSeq(blocks, 1, i - 1), <<blocks[i][1], cut>>))]
        ELSE [exc |-> NoExc, doc |-> info]

\* _save_settings_toml, block_manager.py:624-641: [info, store, exc]
SaveSettingsToml(info, store, m) ==
    LET store1 == [store EXCEPT !.dir = TRUE]
    IN  IF "settings" \notin DOMAIN info
        THEN [info |-> info, store |-> store1, exc |-> "KeyError"]
        ELSE LET settings == [allow_installs |-> m.allow_installs,
                              blocks_folder |-> m.blocks_folder,
                              verify_blocks |-> m.verify_blocks]
                 info1 == [info EXCEPT !.settings =
                             [k \in (DOMAIN @) \cup (DOMAIN settings) |->
                                 IF k \in DOMAIN settings THEN settings[k] ELSE @[k]]]
                 out == TomlDump(info1)
             IN  [info |-> info1,
                  store |-> [store1 EXCEPT !.doc = [exists |-> TRUE, info |-> out.doc]],
                  exc |-> out.exc]

-----------------------------------------------------------------------------
(* _setup, block_manager.py:220-263 *)

\* block_manager.py:233-253: the collections an empty registry starts with
EmptyInfo ==
    [blocks |-> <<>>, installs |-> <<>>, extra_block_settings |-> <<>>,
     templates_dir |-> <<>>, statics |-> <<>>,
     hooks |-> ("_start_hooks" :> <<>>) @@ ("_block_preload_hooks" :> <<>>)
               @@ ("_block_postload_hooks" :> <<>>),
     settings |-> EmptyDict]

\* The result of _setup is [info, store, exc, ret, events, saved]: the
\* in-memory registry and the state directory as the call leaves them, the
\* exception that ended it (or NoExc), has_changes, the directories
\* resolved, and whether _save_settings_toml was reached.
\* self._hooks_setup is never filled, so run_hooks runs nothing.

\* block_manager.py:258-263: b is what _setup_blocks did, h what
\* _setup_hooks did and w what _save_settings_toml did
AfterSave(b, h, w) ==
    [info |-> w.info, store |-> w.store, exc |-> w.exc,
     ret |-> IF w.exc = NoExc THEN h.new \/ b.ret ELSE FALSE,
     events |-> b.events, saved |-> TRUE]

\* block_manager.py:257-258
AfterHooks(m, b, h) ==
    IF h.exc # NoExc
    THEN [info |-> h.info, store |-> b.store, exc |-> h.exc, ret |-> FALSE,
          events |-> b.events, saved |-> FALSE]
    ELSE AfterSave(b, h, SaveSettingsToml(h.info, b.store, m))

\* a setup that puts the registry back as it was when the blocks failed
AfterBlocksRollback(m, tree, b) ==
    IF b.exc # NoExc
    THEN [info |-> m.info, store |-> b.store, exc |-> b.exc, ret |-> FALSE,
          events |-> b.events, saved |-> FALSE]
    ELSE AfterHooks(m, b, SetupHooks(b.info, tree, m.allow_block_import_failure))

\* block_manager.py:256-257
AfterBlocks(m, tree, b) ==
    IF b.exc # NoExc
    THEN [info |-> b.info, store |-> b.store, exc |-> b.exc, ret |-> FALSE,
          events |-> b.events, saved |-> FALSE]
    ELSE AfterHooks(m, b, SetupHooks(b.info, tree, m.allow_block_import_failure))

Setup(m, store, tree, content, opts) ==
    AfterBlocks(m, tree,
        SetupBlocks(IF DOMAIN m.info = {} THEN EmptyInfo ELSE m.info,
                    store, tree, content,
                    [allowFail |-> m.allow_block_import_failure,
                     allowInstalls |-> m.allow_installs,
                     saveHashes |-> opts.saveHashes,
                     pipFails |-> opts.pipFails]))

-----------------------------------------------------------------------------
(* The BlockManager singleton of one process *)

NoMgr == [alive |-> FALSE]

\* a load that takes a missing document for an empty one
LoadSettingsTomlLenient(m, store) ==
    IF store.doc = NoDoc THEN [m |-> m, exc |-> NoExc]
    ELSE [m |-> [m EXCEPT !.info = store.doc.info], exc |-> NoExc]

\* a load that leaves blocks_folder as the constructor set it
LoadSettingsTomlOwnFolder(m, store) ==
    IF store.doc = NoDoc THEN [m |-> m, exc |-> "ConfigurationMissing"]
    ELSE IF "settings" \notin DOMAIN store.doc.info
    THEN [m |-> [m EXCEPT !.info = store.doc.info], exc |-> "KeyError"]
    ELSE [m |-> [m EXCEPT
                 !.info = store.doc.info,
                 !.allow_installs =
                     Get(store.doc.info.settings, "allow_installs", FALSE) \/ @,
                 !.verify_blocks = Get(store.doc.info.settings, "verify_blocks", @)],
          exc |-> NoExc]

\* _load_settings_toml, block_manager.py:606-622: [m, exc]
LoadSettingsToml(m, store) ==
    IF store.doc = NoDoc THEN [m |-> m, exc |-> "ConfigurationMissing"]
    ELSE LET info == store.doc.info
         IN  IF "settings" \notin DOMAIN info
             THEN [m |-> [m EXCEPT !.info = info], exc |-> "KeyError"]
             ELSE [m |-> [m EXCEPT
                          !.info = info,
                          !.allow_installs =
                              Get(info.settings, "allow_installs", FALSE) \/ @,
                          !.blocks_folder = Get(info.settings, "blocks_folder", @),
                          !.verify_blocks = Get(info.settings, "verify_blocks", @)],
                   exc |-> NoExc]

\* BlockManager(late_load=..., **kwargs) in a fresh process,
\* block_manager.py:83-99
NewBlockManager(store, lateLoad, kwargs) ==
    LET m0 == [alive |-> TRUE, info |-> EmptyDict,
               allow_installs |-> kwargs.allow_installs,
               verify_blocks |-> kwargs.verify_blocks,
               allow_block_import_failure |-> kwargs.allow_block_import_failure,
               blocks_folder |-> BlocksFolder,
               templates |-> FALSE,
               templates_router |-> <<>>,
               api_router |-> <<>>]
    IN  IF lateLoad THEN [m |-> m0, exc |-> NoExc]
        ELSE LoadSettingsToml(m0, store)

-----------------------------------------------------------------------------
(* init_app, block_manager.py:101-197.  What the world outside the         *)
(* registry is like when the host starts is given by                       *)
(*   env = [code, norouter, raising, statics]:                             *)
(* code as for _resolve_hooks, the modules that import but have no router, *)
(* the [hook, on] pairs of the functions that raise, and the paths that    *)
(* exist as static folders.  The loop keeps                                *)
(*   acc = [events, tr, api, mounts, exc, exited]:                         *)
(* what was done so far, the routers included in templates_router and      *)
(* api_router, the static mounts of the host, the exception on its way out *)
(* and whether os._exit was called.  The loop's other values are           *)
(*   cx = [verify, allowFail, store, tree, content, pre, post, env].       *)

\* the exit status of os._exit(0), block_manager.py:154
MismatchExitCode == 0

\* one thing init_app did for a block
Event(name, step, exc, calls, ok) ==
    [block |-> name, step |-> step, exc |-> exc, calls |-> calls, ok |-> ok]

Log(acc, ev) == [acc EXCEPT !.events = Append(@, ev)]

\* a step that raised: the exception leaves the try body
Fail(acc, ev) == [acc EXCEPT !.events = Append(@, ev), !.exc = ev.exc]

\* block_manager.py:187
PostloadStep(acc, name, rec, cx) ==
    Fail(acc, [step |-> "postload", block |-> name, ok |-> TRUE]
                @@ RunHooks(cx.post, [block_info |-> rec], cx.env.raising))

\* block_manager.py:180-184
ApiRouterStep(acc, name, rec, cx) ==
    IF ~Truthy(Get(rec, "api_router", None))
    THEN PostloadStep(acc, name, rec, cx)
    ELSE IF rec.api_router \in cx.env.code.missing
    THEN Fail(acc, Event(name, "api_router", "ImportError", <<>>, FALSE))
    ELSE IF rec.api_router \in cx.env.norouter
    THEN PostloadStep(Log(acc, Event(name, "api_router", NoExc, <<>>, FALSE)),
                      name, rec, cx)
    ELSE PostloadStep(
            [Log(acc, Event(name, "api_router", NoExc, <<>>, TRUE))
                EXCEPT !.api = Append(@, rec.api_router)],
            name, rec, cx)

\* block_manager.py:173-177
TemplateRouterStep(acc, name, rec, cx) ==
    IF ~Truthy(Get(rec, "template_router", None))
    THEN ApiRouterStep(acc, name, rec, cx)
    ELSE IF rec.template_router \in cx.env.code.missing
    THEN Fail(acc, Event(name, "template_router", "ImportError", <<>>, FALSE))
    ELSE IF rec.template_router \in cx.env.norouter
    THEN ApiRouterStep(Log(acc, Event(name, "template_router", NoExc, <<>>, FALSE)),
                       name, rec, cx)
    ELSE ApiRouterStep(
            [Log(acc, Event(name, "template_router", NoExc, <<>>, TRUE))
                EXCEPT !.tr = Append(@, rec.template_router)],
            name, rec, cx)

\* block_manager.py:163-169
StaticsStep(acc, name, rec, cx) ==
    TemplateRouterStep(
        IF Truthy(Get(rec, "statics", None)) /\ rec.statics \in cx.env.statics
        THEN [Log(acc, Event(name, "statics", NoExc, <<>>, TRUE))
                 EXCEPT !.mounts = Append(@, name)]
        ELSE acc,
        name, rec, cx)

\* a try body that goes on after its preload hooks raised
AfterPreloadAnyway(acc, name, rec, cx) == StaticsStep(acc, name, rec, cx)

AfterPreload(acc, name, rec, cx) ==
    IF acc.exc # NoExc THEN acc ELSE StaticsStep(acc, name, rec, cx)

\* block_manager.py:160
PreloadStep(acc, name, rec, cx) ==
    AfterPreload(
        Fail(acc, [step |-> "preload", block |-> name, ok |-> TRUE]
                    @@ RunHooks(cx.pre, [block_info |-> rec], cx.env.raising)),
        name, rec, cx)

\* an except that never raises again
ExceptSwallow(acc, allowFail) == [acc EXCEPT !.exc = NoExc]

\* block_manager.py:189-192: the except of the loop body
Except(acc, allowFail) ==
    IF acc.exc # NoExc /\ allowFail THEN [acc EXCEPT !.exc = NoExc] ELSE acc

\* block_manager.py:156-192
TryBlock(acc, name, rec, cx) ==
    Except(PreloadStep(Log(acc, Event(name, "prep", NoExc, <<>>, TRUE)),
                       name, rec, cx),
           cx.allowFail)

\* a loop that goes on with the block whatever the verification said
AfterVerifyContinue(acc, name, rec, cx, v) ==
    IF v.exc # NoExc THEN Fail(acc, Event(name, "verify", v.exc, <<>>, FALSE))
    ELSE TryBlock(Log(acc, Event(name, "verify", NoExc, <<>>, v.ret)), name, rec, cx)

\* block_manager.py:149-154: v is what _verify_block_hash did
AfterVerify(acc, name, rec, cx, v) ==
    IF v.exc # NoExc THEN Fail(acc, Event(name, "verify", v.exc, <<>>, FALSE))
    ELSE IF ~v.ret
    THEN [Log(acc, Event(name, "verify", NoExc, <<>>, FALSE)) EXCEPT !.exited = TRUE]
    ELSE TryBlock(Log(acc, Event(name, "verify", NoExc, <<>>, TRUE)), name, rec, cx)

\* block_manager.py:145-154
VerifyStep(acc, name, rec, cx) ==
    IF ~cx.verify THEN TryBlock(acc, name, rec, cx)
    ELSE IF "block_path" \notin DOMAIN rec
    THEN Fail(acc, Event(name, "verify", "TypeError", <<>>, FALSE))
    ELSE AfterVerify(acc, name, rec, cx,
            VerifyBlockHash(cx.verify, cx.store, cx.tree, cx.content, rec.block_path))

RECURSIVE ActivateLoop(_, _, _, _)
\* block_manager.py:142-192, over sorted_blocks
ActivateLoop(acc, blocks, cx, i) ==
    IF i > Len(blocks) \/ acc.exc # NoExc \/ acc.exited THEN acc
    ELSE ActivateLoop(VerifyStep(acc, blocks[i][1], blocks[i][2], cx),
                      blocks, cx, i + 1)

\* a list left as it is
SortedByInsertion(blocks) == blocks

RECURSIVE SortedByLoadOrder(_)
\* sorted(blocks.items(), key=lambda x: x[1]['load_order']),
\* block_manager.py:139: a stable sort, the last item is put behind every
\* item whose key is not larger
SortedByLoadOrder(blocks) ==
    IF Len(blocks) = 0 THEN <<>>
    ELSE LET x == blocks[Len(blocks)]
             done == SortedByLoadOrder(SubSeq(blocks, 1, Len(blocks) - 1))
             k == Cardinality({j \in 1..Len(done) :
                                  done[j][2].load_order <= x[2].load_order})
         IN  SubSeq(done, 1, k) \o <<x>> \o SubSeq(done, k + 1, Len(done))

\* an init_app that drops the registry once it has used it
OutcomeForgetting(m, outcome, exc, starts, acc, attached) ==
    [m |-> [m EXCEPT !.info = EmptyDict],
     outcome |-> outcome, exc |-> exc, starts |-> starts, events |-> acc.events,
     app |-> [block_manager |-> attached, mounts |-> acc.mounts,
              routers |-> IF outcome = "returned" /\ "blocks" \in DOMAIN m.info
                          THEN <<acc.tr, acc.api>> ELSE <<>>]]

\* The result of init_app is [m, outcome, exc, starts, events, app]: the
\* manager as the call leaves it, how the call ended ("returned", "raised"
\* or "exited"), the exception raised (or NoExc), the calls of the start
\* hooks, what was done for the blocks, and the host app.
Outcome(m, outcome, exc, starts, acc, attached) ==
    [m |-> [m EXCEPT !.templates_router = acc.tr, !.api_router = acc.api],
     outcome |-> outcome, exc |-> exc, starts |-> starts, events |-> acc.events,
     app |-> [block_manager |-> attached, mounts |-> acc.mounts,
              routers |-> IF outcome = "returned" /\ "blocks" \in DOMAIN m.info
                          THEN <<acc.tr, acc.api>> ELSE <<>>]]

\* block_manager.py:194-197, after the loop
AfterLoop(m, s, acc) ==
    Outcome(m,
            IF acc.exited THEN "exited" ELSE IF acc.exc # NoExc THEN "raised"
            ELSE "returned",
            acc.exc, s.calls, acc, TRUE)

\* the loop's acc before the first block
NoneActivated(m) ==
    [events |-> <<>>, tr |-> m.templates_router, api |-> m.api_router,
     mounts |-> <<>>, exc |-> NoExc, exited |-> FALSE]

\* block_manager.py:135-142
AfterTemplates(m, store, tree, content, env, s) ==
    IF "blocks" \notin DOMAIN m.info
    THEN Outcome(m, "returned", NoExc, s.calls, NoneActivated(m), TRUE)
    ELSE IF \E i \in 1..Len(m.info.blocks) :
                "load_order" \notin DOMAIN m.info.blocks[i][2]
    THEN Outcome(m, "raised", "KeyError", s.calls, NoneActivated(m), TRUE)
    ELSE AfterLoop(m, s,
            ActivateLoop(NoneActivated(m), SortedByLoadOrder(m.info.blocks),
                [verify |-> m.verify_blocks,
                 allowFail |-> m.allow_block_import_failure,
                 store |-> store, tree |-> tree, content |-> content,
                 pre |-> ResolveHooks(HooksOf(m.info, "_block_preload_hooks"), env.code),
                 post |-> ResolveHooks(HooksOf(m.info, "_block_postload_hooks"), env.code),
                 env |-> env],
                1))

\* block_manager.py:119-133: s is what running the start hooks did;
\* FileSystemLoader takes os.fspath of every entry of templates_dir
AfterStartHooks(m, store, tree, content, env, s) ==
    IF s.exc # NoExc
    THEN Outcome(m, "raised", s.exc, s.calls, NoneActivated(m), FALSE)
    ELSE IF ~m.templates /\ "templates_dir" \in DOMAIN m.info
    THEN (IF InList(None, m.info.templates_dir)
          THEN Outcome(m, "raised", "TypeError", s.calls, NoneActivated(m), TRUE)
          ELSE AfterTemplates([m EXCEPT !.templates = TRUE],
                              store, tree, content, env, s))
    ELSE AfterTemplates(m, store, tree, content, env, s)

\* an init_app that goes to the blocks without running the start hooks
InitAppWithoutStart(m, store, tree, content, env) ==
    AfterStartHooks(m, store, tree, content, env, [calls |-> <<>>, exc |-> NoExc])

\* init_app(app_instance), for a host app that has nothing mounted yet
InitApp(m, store, tree, content, env) ==
    AfterStartHooks(m, store, tree, content, env,
        RunHooks(ResolveHooks(HooksOf(m.info, "_start_hooks"), env.code),
                 [blocks_infos |-> Get(m.info, "blocks", <<>>)],
                 env.raising))

-----------------------------------------------------------------------------
(* The state machine *)

Trees ==
    {[exists |-> FALSE, dir |-> [d \in Dirs |-> NoDir]]}
        \cup {[exists |-> TRUE, dir |-> f] : f \in [Dirs -> Manifests \cup {NoDir}]}

\* the files of a block directory besides block_config.toml: a source file,
\* a template, a script, and a file whose extension dirhash does not match
FileNames == {"py", "html", "js", "txt"}

EmptyStore == [dir |-> FALSE, doc |-> NoDoc, hashes |-> NoFile]

\* the outcomes of pip the model tries: every install succeeds, or every
\* install of pkgB fails
PipFailures == {{}, {"pkgB"}}

\* the keyword arguments of the cli's BlockManager(...) calls
Kwargs ==
    [allow_installs : BOOLEAN, verify_blocks : BOOLEAN,
     allow_block_import_failure : BOOLEAN]

\* the driver `setup --folder` constructs: late_load, nothing loaded
FreshManagers(kwargs) == {NewBlockManager(EmptyStore, TRUE, k).m : k \in kwargs}

\* the content of a block directory
Snapshot(tree, content, d) == [toml |-> tree.dir[d], files |-> content[d]]

\* A process starts and constructs its BlockManager; a process that was
\* running ends.  A constructor that raises leaves no instance.
Start(lateLoad, kwargs) ==
    /\ budget.starts > 0
    /\ \E r \in {NewBlockManager(disk, lateLoad, kwargs)} :
           /\ mgr' = IF r.exc = NoExc THEN r.m ELSE NoMgr
           /\ last' = [op |-> "start", exc |-> r.exc, lateLoad |-> lateLoad]
    /\ budget' = [budget EXCEPT !.starts = @ - 1]
    /\ UNCHANGED <<fs, files, disk, recorded, procs>>

\* the directories whose digest a setup run stored
HashedDirs(events) ==
    {events[i].dir : i \in {j \in 1..Len(events) : events[j].exc = NoExc}}

\* the history after the directories dirs were hashed
Snapshots(old, dirs, tree, content) ==
    LET keys == {Basename(BlockPath(d)) : d \in dirs}
    IN  [b \in (DOMAIN old) \cup keys |->
            IF b \in keys
            THEN Snapshot(tree, content,
                          CHOOSE d \in dirs : b = Basename(BlockPath(d)))
            ELSE old[b]]

\* manager._setup(run_hooks, save_hashes)
RunSetup(saveHashes, pipFails) ==
    /\ mgr # NoMgr
    /\ budget.setups > 0
    /\ \E r \in {Setup(mgr, disk, fs, files,
                        [saveHashes |-> saveHashes, pipFails |-> pipFails])} :
           /\ mgr' = [mgr EXCEPT !.info = r.info]
           /\ disk' = r.store
           /\ last' = [op |-> "setup", exc |-> r.exc, ret |-> r.ret,
                       events |-> r.events, saved |-> r.saved,
                       save_hashes |-> saveHashes]
    /\ recorded' = IF saveHashes
                   THEN Snapshots(recorded, HashedDirs(last'.events), fs, files)
                   ELSE recorded
    /\ budget' = [budget EXCEPT !.setups = @ - 1]
    /\ UNCHANGED <<fs, files, procs>>

\* a block directory is created, removed, or its block_config.toml edited
EditManifest(d, x) ==
    /\ budget.edits > 0
    /\ fs.exists
    /\ fs.dir[d] # x
    /\ fs' = [fs EXCEPT !.dir[d] = x]
    /\ last' = [op |-> "edit"]
    /\ budget' = [budget EXCEPT !.edits = @ - 1]
    /\ UNCHANGED <<files, disk, mgr, recorded, procs>>

\* a file of a block directory is rewritten with other content
ModifyFile(d, n) ==
    /\ budget.edits > 0
    /\ fs.exists
    /\ fs.dir[d] # NoDir
    /\ files' = [files EXCEPT ![d][n] = 1 - @]
    /\ last' = [op |-> "edit"]
    /\ budget' = [budget EXCEPT !.edits = @ - 1]
    /\ UNCHANGED <<fs, disk, mgr, recorded, procs>>

\* manager._save_block_hashes(block_path)
RecordHash(d) ==
    /\ mgr # NoMgr
    /\ \E r \in {SaveBlockHashes(disk, fs, files, BlockPath(d))} :
           /\ disk' = r.store
           /\ recorded' = IF r.exc = NoExc
                          THEN Put(recorded, Basename(BlockPath(d)),
                                   Snapshot(fs, files, d))
                          ELSE recorded
           /\ last' = [op |-> "record", dir |-> d, exc |-> r.exc]
    /\ UNCHANGED <<fs, files, mgr, budget, procs>>

\* manager._verify_block_hash(block_path)
Verify(d) ==
    /\ mgr # NoMgr
    /\ \E r \in {VerifyBlockHash(mgr.verify_blocks, disk, fs, files, BlockPath(d))} :
           last' = [op |-> "verify", dir |-> d, exc |-> r.exc, ret |-> r.ret]
    /\ UNCHANGED <<fs, files, disk, mgr, recorded, budget, procs>>

-----------------------------------------------------------------------------
(* One driver: `setup --folder blocks` run again and again in a project    *)
(* whose block directories are edited in between.  save_hashes is off and  *)
(* verify_blocks is left at its default.                                   *)

SetupKwargs == {k \in Kwargs : ~k.verify_blocks}

Init ==
    /\ fs \in Trees
    /\ files = [d \in Dirs |-> [n \in FileNames |-> 0]]
    /\ disk = EmptyStore
    /\ mgr \in FreshManagers(SetupKwargs)
    /\ last = [op |-> "init"]
    /\ recorded = EmptyDict
    /\ procs = NoProcs
    /\ budget = [setups |-> MaxSetups, edits |-> MaxEdits, starts |-> 0, acts |-> 0]

Next ==
    \/ \E pipFails \in PipFailures : RunSetup(FALSE, pipFails)
    \/ \E d \in Dirs, x \in Manifests \cup {NoDir} : EditManifest(d, x)

Spec == Init /\ [][Next]_vars

-----------------------------------------------------------------------------
(* Several processes, one after the other, over the same state directory *)

InitRestart ==
    /\ fs \in Trees
    /\ files = [d \in Dirs |-> [n \in FileNames |-> 0]]
    /\ disk = EmptyStore
    /\ mgr \in FreshManagers(SetupKwargs)
    /\ last = [op |-> "init"]
    /\ recorded = EmptyDict
    /\ procs = NoProcs
    /\ budget = [setups |-> MaxSetups, edits |-> MaxEdits, starts |-> MaxStarts,
                 acts |-> 0]

NextRestart ==
    \/ \E pipFails \in PipFailures : RunSetup(FALSE, pipFails)
    \/ \E d \in Dirs : EditManifest(d, NoDir)
    \/ \E lateLoad \in BOOLEAN, kwargs \in SetupKwargs : Start(lateLoad, kwargs)

SpecRestart == InitRestart /\ [][NextRestart]_vars

-----------------------------------------------------------------------------
(* The integrity verifier at work on block directories whose files change *)

HashTrees ==
    {[exists |-> TRUE, dir |-> [d1 |-> BlogToml, d2 |-> x]] : x \in {NoDir, CommentsToml}}

HashKwargs == {k \in Kwargs : ~k.allow_installs}

InitHash ==
    /\ fs \in HashTrees
    /\ files = [d \in Dirs |-> [n \in FileNames |-> 0]]
    /\ disk \in {[EmptyStore EXCEPT !.dir = b] : b \in BOOLEAN}
    /\ mgr \in FreshManagers(HashKwargs)
    /\ last = [op |-> "init"]
    /\ recorded = EmptyDict
    /\ procs = NoProcs
    /\ budget = [setups |-> MaxSetups, edits |-> MaxEdits, starts |-> 0, acts |-> 0]

NextHash ==
    \/ RunSetup(TRUE, {})
    \/ \E d \in Dirs : RecordHash(d)
    \/ \E d \in Dirs : Verify(d)
    \/ \E d \in Dirs, n \in FileNames : ModifyFile(d, n)
    \/ \E d \in Dirs : EditManifest(d, NoDir)

SpecHash == InitHash /\ [][NextHash]_vars

-----------------------------------------------------------------------------
(* The hook registry on its own: hooks are attached to the registry that   *)
(* _setup has initialised, and the recorded names are resolved against the *)
(* modules as they are on disk at that moment.                             *)

HookModules == {SettingsModule("d1"), SettingsModule("d2")}

HookNames == {"_say_hi", "_seed"}

\* the function objects a settings class may hand over: obj tells apart two
\* objects of the same module and name (the module imported by two processes)
HookFunctions == [module : HookModules, fn : HookNames, obj : {1, 2}]

HookLists ==
    {<<h>> : h \in HookFunctions}
        \cup {<<g, h>> : g \in {x \in HookFunctions : x.obj = 1},
                         h \in {x \in HookFunctions : x.obj = 2}}

\* the lists handed to a group that _setup does not initialise
SetupHookLists == {hooks \in HookLists : \A i \in 1..Len(hooks) :
                      hooks[i].module = SettingsModule("d1") /\ hooks[i].fn = "_say_hi"}

AttachedGroups == {"_setup_hooks", "_start_hooks"}

\* the keyword arguments left at their defaults
DefaultKwargs == {k \in Kwargs : ~k.allow_installs /\ ~k.verify_blocks
                                    /\ ~k.allow_block_import_failure}

\* what the modules hold when _resolve_hooks imports them
CodeStates ==
    [missing : {{}, {SettingsModule("d2")}},
     gone : {{}, {[module |-> SettingsModule("d1"), fn |-> "_say_hi"]}},
     notcallable : {{}, {[module |-> SettingsModule("d1"), fn |-> "_seed"]},
                    {[module |-> SettingsModule("d2"), fn |-> "_say_hi"]}}]

\* self._attach_hook(hook_group, block_hooks)
AttachCall(group, hooks) ==
    /\ mgr # NoMgr
    /\ \E r \in {AttachHook([info |-> mgr.info, new |-> FALSE, exc |-> NoExc],
                            group, hooks)} :
           /\ mgr' = [mgr EXCEPT !.info = r.info]
           /\ last' = [op |-> "attach", group |-> group, hooks |-> hooks,
                       before |-> HooksOf(mgr.info, group),
                       exc |-> r.exc, ret |-> r.new]
    /\ UNCHANGED <<fs, files, disk, recorded, budget, procs>>

\* self._resolve_hooks(self.block_manager_info.get("hooks", {}).get(group, {}))
ResolveCall(group, code) ==
    /\ mgr # NoMgr
    /\ last' = [op |-> "resolve", group |-> group, code |-> code,
                ret |-> ResolveHooks(HooksOf(mgr.info, group), code)]
    /\ UNCHANGED <<fs, files, disk, mgr, recorded, budget, procs>>

InitHooks ==
    /\ fs \in {t \in HashTrees : t.dir["d2"] # NoDir}
    /\ files = [d \in Dirs |-> [n \in FileNames |-> 0]]
    /\ disk = EmptyStore
    /\ mgr \in {[m EXCEPT !.info = EmptyInfo] : m \in FreshManagers(DefaultKwargs)}
    /\ last = [op |-> "init"]
    /\ recorded = EmptyDict
    /\ procs = NoProcs
    /\ budget = [setups |-> 0, edits |-> 0, starts |-> 0, acts |-> 0]

NextHooks ==
    \/ \E hooks \in HookLists : AttachCall("_start_hooks", hooks)
    \/ \E hooks \in SetupHookLists : AttachCall("_setup_hooks", hooks)
    \/ \E group \in AttachedGroups, code \in CodeStates : ResolveCall(group, code)

SpecHooks == InitHooks /\ [][NextHooks]_vars

-----------------------------------------------------------------------------
(* A project that is set up and then served: setup, the host calling       *)
(* init_app, files changed in between, and a new process that loads the    *)
(* registry document.                                                      *)

MaxActivations == 1

MaxServedSetups == 1

RouterModule(d) == PathToModule(Join(BlockPath(d), File("router", "py")))

ApiRouterModule(d) == PathToModule(Join(BlockPath(d), File("api_router", "py")))

StaticsPath(d) == Join(BlockPath(d), Name("static"))

Hook(d, fn) == [module |-> SettingsModule(d), fn |-> fn]

\* every module imports and has what is asked of it, no hook raises, and
\* every declared static folder exists
NoFault ==
    [code |-> [missing |-> {}, gone |-> {}, notcallable |-> {}],
     norouter |-> {}, raising |-> {},
     statics |-> {StaticsPath(d) : d \in Dirs}]

Environments ==
    {NoFault,
     [NoFault EXCEPT !.code.missing = {RouterModule("d1")}],
     [NoFault EXCEPT !.norouter = {ApiRouterModule("d1")}],
     [NoFault EXCEPT !.raising = {[hook |-> Hook("d2", "_pre"), on |-> "comments"]}],
     [NoFault EXCEPT !.raising = {[hook |-> Hook("d2", "_post"), on |-> "blog"]}],
     [NoFault EXCEPT !.raising = {[hook |-> Hook("d1", "_say_hi"), on |-> "start"]}],
     [NoFault EXCEPT !.statics = {StaticsPath("d2")}],
     [NoFault EXCEPT !.code.gone = {Hook("d2", "_pre")}]}

\* block_manager.init_app(app) in the running process; os._exit ends it
Activate(env) ==
    /\ mgr # NoMgr
    /\ budget.acts > 0
    /\ \E r \in {InitApp(mgr, disk, fs, files, env)} :
           /\ mgr' = IF r.outcome = "exited" THEN NoMgr ELSE r.m
           /\ last' = [op |-> "activate", env |-> env, outcome |-> r.outcome,
                       exc |-> r.exc,
                       code |-> IF r.outcome = "exited" THEN MismatchExitCode ELSE -1,
                       starts |-> r.starts, events |-> r.events, app |-> r.app,
                       verify |-> mgr.verify_blocks,
                       allowFail |-> mgr.allow_block_import_failure,
                       blocks |-> Get(mgr.info, "blocks", <<>>)]
    /\ budget' = [budget EXCEPT !.acts = @ - 1]
    /\ UNCHANGED <<fs, files, disk, recorded, procs>>

\* the host process constructs BlockManager(verify_blocks=True)
HostKwargs ==
    {k \in HashKwargs : k.verify_blocks /\ ~k.allow_block_import_failure}

ServedTrees ==
    {[exists |-> TRUE, dir |-> [d1 |-> BlogToml, d2 |-> x]] :
        x \in {NoDir, CommentsToml, PartialToml}}

InitServed ==
    /\ fs \in ServedTrees
    /\ files = [d \in Dirs |-> [n \in FileNames |-> 0]]
    /\ disk \in {[EmptyStore EXCEPT !.dir = b] : b \in BOOLEAN}
    /\ mgr \in FreshManagers(HashKwargs)
    /\ last = [op |-> "init"]
    /\ recorded = EmptyDict
    /\ procs = NoProcs
    /\ budget = [setups |-> MaxServedSetups, edits |-> MaxEdits, starts |-> MaxStarts,
                 acts |-> MaxActivations]

NextServed ==
    \/ \E saveHashes \in BOOLEAN : RunSetup(saveHashes, {})
    \/ \E env \in Environments : Activate(env)
    \/ \E d \in Dirs : ModifyFile(d, "py")
    \/ \E d \in Dirs : Verify(d)
    \/ \E kwargs \in HostKwargs : Start(FALSE, kwargs)

SpecServed == InitServed /\ [][NextServed]_vars

-----------------------------------------------------------------------------
(* One driver whose init_app is called more than once: the host is built   *)
(* again in the same process (an app factory, a test suite), each time     *)
(* with a new app that has nothing mounted yet.                            *)

MaxReactivations == 2

InitReuse ==
    /\ fs \in ServedTrees
    /\ files = [d \in Dirs |-> [n \in FileNames |-> 0]]
    /\ disk \in {[EmptyStore EXCEPT !.dir = b] : b \in BOOLEAN}
    /\ mgr \in FreshManagers(HashKwargs)
    /\ last = [op |-> "init"]
    /\ recorded = EmptyDict
    /\ procs = NoProcs
    /\ budget = [setups |-> MaxServedSetups, edits |-> 0, starts |-> 0,
                 acts |-> MaxReactivations]

NextReuse ==
    \/ \E saveHashes \in BOOLEAN : RunSetup(saveHashes, {})
    \/ \E env \in Environments : Activate(env)

SpecReuse == InitReuse /\ [][NextReuse]_vars

-----------------------------------------------------------------------------
(* A project whose block_infos.toml was written by an earlier version of   *)
(* the manager and lacks some of the collections of today's registry: the  *)
(* manager of src/fastapi_blocks/block_manager.py writes blocks, installs  *)
(* and extra_block_settings alone.                                         *)

LegacyDocs ==
    {Restrict(EmptyInfo, keys) : keys \in SUBSET (DOMAIN EmptyInfo)}

InitLegacy ==
    /\ fs \in ServedTrees
    /\ files = [d \in Dirs |-> [n \in FileNames |-> 0]]
    /\ disk \in {[dir |-> TRUE, doc |-> [exists |-> TRUE, info |-> doc],
                  hashes |-> NoFile] : doc \in LegacyDocs}
    /\ mgr = NoMgr
    /\ last = [op |-> "init"]
    /\ recorded = EmptyDict
    /\ procs = NoProcs
    /\ budget = [setups |-> MaxServedSetups, edits |-> 0, starts |-> MaxStarts,
                 acts |-> MaxActivations]

NextLegacy ==
    \/ \E kwargs \in HostKwargs : Start(FALSE, kwargs)
    \/ RunSetup(FALSE, {})
    \/ Activate(NoFault)

SpecLegacy == InitLegacy /\ [][NextLegacy]_vars

-----------------------------------------------------------------------------
(* SingletonMeta.__call__, block_manager.py:27-35, called by several       *)
(* threads of one process.  procs = [pc, lock, instance, runs, built, got]: *)
(* where each thread is, who holds cls._lock, the number of the instance   *)
(* in cls._instances (0: none), how many times the constructor body was    *)
(* entered and how many times it completed, and the instance each thread   *)
(* was given (0: none yet).                                                *)

Threads == {"t1", "t2", "t3"}

NoThread == "none"

\* no lock at all: every thread may enter
LockIsFreeAlways(lock) == TRUE

\* with cls._lock: the thread blocks until the lock is free
LockIsFree(lock) == lock = NoThread

\* a lock that stays with the thread that took it
UnlockNever(lock, t) == lock

\* leaving the with block, normally or by an exception
Unlock(lock, t) == IF lock = t THEN NoThread ELSE lock

Step(t, step) == last' = [op |-> "call", thread |-> t, step |-> step]

Acquire(t) ==
    /\ procs.pc[t] = "call"
    /\ LockIsFree(procs.lock)
    /\ procs' = [procs EXCEPT !.pc[t] = "check", !.lock = t]
    /\ Step(t, "acquire")
    /\ UNCHANGED <<fs, files, disk, mgr, recorded, budget>>

\* a test that never finds the instance
HasInstanceNever(instance) == FALSE

\* cls in cls._instances
HasInstance(instance) == instance # 0

\* if cls not in cls._instances
Check(t) ==
    /\ procs.pc[t] = "check"
    /\ procs' = [procs EXCEPT
                    !.pc[t] = IF HasInstance(procs.instance) THEN "release"
                              ELSE "construct"]
    /\ Step(t, "check")
    /\ UNCHANGED <<fs, files, disk, mgr, recorded, budget>>

\* cls._instances[cls] = super().__call__(*args, **kwargs); a constructor
\* that raises stores nothing and the exception leaves __call__
Construct(t, lateLoad) ==
    /\ procs.pc[t] = "construct"
    /\ \E r \in {NewBlockManager(disk, lateLoad, kwargs) : kwargs \in SetupKwargs} :
           IF r.exc = NoExc
           THEN /\ mgr' = r.m
                /\ procs' = [procs EXCEPT !.pc[t] = "release",
                                          !.runs = @ + 1, !.built = @ + 1,
                                          !.instance = procs.runs + 1]
           ELSE /\ mgr' = mgr
                /\ procs' = [procs EXCEPT !.pc[t] = "raised", !.runs = @ + 1,
                                          !.lock = Unlock(@, t)]
    /\ Step(t, "construct")
    /\ UNCHANGED <<fs, files, disk, recorded, budget>>

Release(t) ==
    /\ procs.pc[t] = "release"
    /\ procs' = [procs EXCEPT !.pc[t] = "return", !.lock = Unlock(@, t)]
    /\ Step(t, "release")
    /\ UNCHANGED <<fs, files, disk, mgr, recorded, budget>>

\* return cls._instances[cls]
Return(t) ==
    /\ procs.pc[t] = "return"
    /\ procs' = [procs EXCEPT !.pc[t] = "done", !.got[t] = procs.instance]
    /\ Step(t, "return")
    /\ UNCHANGED <<fs, files, disk, mgr, recorded, budget>>

InitSingleton ==
    /\ fs \in ServedTrees
    /\ files = [d \in Dirs |-> [n \in FileNames |-> 0]]
    /\ disk \in {EmptyStore,
                 [dir |-> TRUE, hashes |-> NoFile,
                  doc |-> [exists |-> TRUE, info |-> EmptyInfo]]}
    /\ mgr = NoMgr
    /\ last = [op |-> "init"]
    /\ recorded = EmptyDict
    /\ budget = [setups |-> 0, edits |-> 0, starts |-> 0, acts |-> 0]
    /\ procs = [pc |-> [t \in Threads |-> "call"], lock |-> NoThread,
                instance |-> 0, runs |-> 0, built |-> 0,
                got |-> [t \in Threads |-> 0]]

NextSingleton ==
    \/ \E t \in Threads : Acquire(t)
    \/ \E t \in Threads : Check(t)
    \/ \E t \in Threads, lateLoad \in BOOLEAN : Construct(t, lateLoad)
    \/ \E t \in Threads : Release(t)
    \/ \E t \in Threads : Return(t)

SpecSingleton == InitSingleton /\ [][NextSingleton]_vars

-----------------------------------------------------------------------------
(* Two processes run setup with save_hashes in one working directory.  No  *)
(* lock is shared between processes, so the steps of _save_block_hashes    *)
(* interleave: each process reads block_hashes.json, and later writes the  *)
(* whole file from what it read.  procs = [pc, at, copy, wrote]: the step  *)
(* each process is at, the block directory it is at, the hashes it read,   *)
(* and the entries it has written so far.                                  *)

Processes == {"p1", "p2"}

\* block_manager.py:277-283: the next directory of the iteration; one that
\* is not a block directory now is passed over
ScanBlock(p) ==
    /\ procs.pc[p] = "scan"
    /\ procs' = [procs EXCEPT
                    !.pc[p] = IF procs.at[p] > Len(DirOrder) THEN "done"
                              ELSE IF fs.dir[DirOrder[procs.at[p]]] = NoDir THEN "scan"
                              ELSE "read",
                    !.at[p] = IF procs.at[p] <= Len(DirOrder)
                                 /\ fs.dir[DirOrder[procs.at[p]]] = NoDir
                              THEN @ + 1 ELSE @]
    /\ last' = [op |-> "save_hashes", process |-> p, step |-> "scan"]
    /\ UNCHANGED <<fs, files, disk, mgr, recorded, budget>>

\* block_manager.py:344-348
ReadHashesFile(p) ==
    /\ procs.pc[p] = "read"
    /\ procs' = [procs EXCEPT !.pc[p] = "write", !.copy[p] = ReadHashes(disk)]
    /\ last' = [op |-> "save_hashes", process |-> p, step |-> "read"]
    /\ UNCHANGED <<fs, files, disk, mgr, recorded, budget>>

\* block_manager.py:350-354; dirhash raises when the directory is gone
WriteHashesFile(p) ==
    /\ procs.pc[p] = "write"
    /\ IF IsBlockDir(fs, BlockPath(DirOrder[procs.at[p]]))
       THEN /\ disk' = WriteHashes(disk, procs.copy[p], fs, files,
                                   BlockPath(DirOrder[procs.at[p]])).store
            /\ procs' = [procs EXCEPT
                            !.pc[p] = "scan", !.at[p] = @ + 1,
                            !.wrote[p] = @ \cup {Basename(BlockPath(DirOrder[procs.at[p]]))}]
       ELSE /\ disk' = disk
            /\ procs' = [procs EXCEPT !.pc[p] = "raised"]
    /\ last' = [op |-> "save_hashes", process |-> p, step |-> "write"]
    /\ UNCHANGED <<fs, files, mgr, recorded, budget>>

InitRace ==
    /\ fs \in HashTrees
    /\ files = [d \in Dirs |-> [n \in FileNames |-> 0]]
    /\ disk = [EmptyStore EXCEPT !.dir = TRUE]
    /\ mgr = NoMgr
    /\ last = [op |-> "init"]
    /\ recorded = EmptyDict
    /\ budget = [setups |-> 0, edits |-> MaxEdits, starts |-> 0, acts |-> 0]
    /\ procs = [pc |-> [p \in Processes |-> "scan"],
                at |-> [p \in Processes |-> 1],
                copy |-> [p \in Processes |-> EmptyDict],
                wrote |-> [p \in Processes |-> {}]]

NextRace ==
    \/ \E p \in Processes : ScanBlock(p)
    \/ \E p \in Processes : ReadHashesFile(p)
    \/ \E p \in Processes : WriteHashesFile(p)
    \/ \E x \in {NoDir, CommentsToml} : EditManifest("d2", x)

SpecRace == InitRace /\ [][NextRace]_vars

-----------------------------------------------------------------------------
(* _save_settings_toml in one process and _load_settings_toml in the next: *)
(* a driver with any settings saves, and a driver is constructed anew.     *)

\* a blocks_folder other than the default
PluginsFolder == Name("plugins")

\* the settings table a registry may hold before the save: none yet, or
\* the one of an earlier run
StaleSettings ==
    {EmptyDict,
     [allow_installs |-> TRUE, blocks_folder |-> BlocksFolder, verify_blocks |-> TRUE]}

SavingManagers ==
    {[m EXCEPT !.blocks_folder = folder, !.info = [EmptyInfo EXCEPT !.settings = old]] :
        m \in FreshManagers(Kwargs), folder \in {BlocksFolder, PluginsFolder},
        old \in StaleSettings}

\* self._save_settings_toml()
SaveSettings ==
    /\ budget.setups > 0
    /\ mgr # NoMgr
    /\ \E w \in {SaveSettingsToml(mgr.info, disk, mgr)} :
           /\ disk' = w.store
           /\ mgr' = [mgr EXCEPT !.info = w.info]
           /\ last' = [op |-> "save", exc |-> w.exc]
    /\ budget' = [budget EXCEPT !.setups = @ - 1]
    /\ UNCHANGED <<fs, files, recorded, procs>>

InitSettings ==
    /\ fs \in HashTrees
    /\ files = [d \in Dirs |-> [n \in FileNames |-> 0]]
    /\ disk \in {[EmptyStore EXCEPT !.dir = b] : b \in BOOLEAN}
    /\ mgr \in SavingManagers
    /\ last = [op |-> "init"]
    /\ recorded = EmptyDict
    /\ procs = NoProcs
    /\ budget = [setups |-> MaxServedSetups, edits |-> 0, starts |-> MaxStarts,
                 acts |-> 0]

NextSettings ==
    \/ SaveSettings
    \/ \E lateLoad \in BOOLEAN, kwargs \in Kwargs : Start(lateLoad, kwargs)

SpecSettings == InitSettings /\ [][NextSettings]_vars

-----------------------------------------------------------------------------
(* Setup over block directories whose manifests carry names of every kind: *)
(* settings.py:26 declares name : str and nothing more.                    *)

\* a name of two characters
ShortNameToml == [name |-> "ab", version |-> 1]

\* a name with a character that is no letter, digit or underscore
HyphenNameToml ==
    [name |-> "my-block", version |-> 1, templates_dir |-> Name("templates")]

NameTrees ==
    {[exists |-> TRUE, dir |-> [d1 |-> x, d2 |-> y]] :
        x \in {BlogToml, ShortNameToml},
        y \in {NoDir, CommentsToml, ShortNameToml, HyphenNameToml}}

InitNames ==
    /\ fs \in NameTrees
    /\ files = [d \in Dirs |-> [n \in FileNames |-> 0]]
    /\ disk \in {[EmptyStore EXCEPT !.dir = b] : b \in BOOLEAN}
    /\ mgr \in FreshManagers(HashKwargs)
    /\ last = [op |-> "init"]
    /\ recorded = EmptyDict
    /\ procs = NoProcs
    /\ budget = [setups |-> MaxServedSetups, edits |-> 0, starts |-> MaxStarts,
                 acts |-> 0]

NextNames ==
    \/ \E saveHashes \in BOOLEAN : RunSetup(saveHashes, {})
    \/ \E kwargs \in HashKwargs : Start(FALSE, kwargs)

SpecNames == InitNames /\ [][NextNames]_vars

-----------------------------------------------------------------------------
(* The manifest schema alone: a manifest is parsed, the record is dumped   *)
(* with get_dict, and the dictionary is parsed and dumped again.  last     *)
(* holds the manifest, the record or the dictionary, the directory, the    *)
(* number of the cycle and the dictionary of the cycle before.             *)

MaxCycles == 2

\* BlogToml with every choice of its optional path fields
RoundTripManifests ==
    Manifests \cup
    {Restrict(BlogToml, {"name", "version", "requirements"} \cup keys) :
        keys \in SUBSET (PathFields \cup ModuleFields)}

\* settings_class(**block_settings_data, block_path=block_path)
ParseManifest ==
    /\ last.op \in {"manifest", "get_dict"}
    /\ last.cycle < MaxCycles
    /\ last' = [op |-> "parse", dir |-> last.dir, cycle |-> last.cycle + 1,
                rec |-> BlockSettingsBase(last.raw, BlockPath(last.dir)),
                first |-> last.raw]
    /\ UNCHANGED <<fs, files, disk, mgr, recorded, budget, procs>>

\* block_settings.get_dict()
DumpRecord ==
    /\ last.op = "parse"
    /\ last' = [op |-> "get_dict", dir |-> last.dir, cycle |-> last.cycle,
                raw |-> GetDict(last.rec), first |-> last.first]
    /\ UNCHANGED <<fs, files, disk, mgr, recorded, budget, procs>>

InitRoundTrip ==
    /\ fs \in HashTrees
    /\ files = [d \in Dirs |-> [n \in FileNames |-> 0]]
    /\ disk = EmptyStore
    /\ mgr = NoMgr
    /\ last \in {[op |-> "manifest", dir |-> d, cycle |-> 0, raw |-> raw] :
                    d \in Dirs, raw \in RoundTripManifests}
    /\ recorded = EmptyDict
    /\ procs = NoProcs
    /\ budget = [setups |-> 0, edits |-> 0, starts |-> 0, acts |-> 0]

NextRoundTrip ==
    \/ ParseManifest
    \/ DumpRecord

SpecRoundTrip == InitRoundTrip /\ [][NextRoundTrip]_vars

-----------------------------------------------------------------------------
(* _setup with its last step written out: after _save_settings_toml,       *)
(* _run_hooks(self._hooks_setup) when run_hooks is set.                    *)

\* a list filled from the hooks the registry records for setup
HooksSetupFromRegistry(info) == ResolveHooks(HooksOf(info, "_setup_hooks"), NoFault.code)

\* self._hooks_setup, block_manager.py:78: the class attribute, which
\* nothing assigns
HooksSetup(info) == <<>>

\* block_manager.py:260-261, reached when nothing raised before
SetupHookCalls(r, runHooks) ==
    IF r.exc = NoExc /\ runHooks
    THEN RunHooks(HooksSetup(r.info), EmptyDict, {}).calls
    ELSE <<>>

\* _setup(run_hooks=runHooks)
RunSetupAndHooks(runHooks) ==
    /\ mgr # NoMgr
    /\ budget.setups > 0
    /\ \E r \in {Setup(mgr, disk, fs, files,
                        [saveHashes |-> FALSE, pipFails |-> {}])} :
           /\ mgr' = [mgr EXCEPT !.info = r.info]
           /\ disk' = r.store
           /\ last' = [op |-> "setup", exc |-> r.exc, ret |-> r.ret,
                       events |-> r.events, saved |-> r.saved,
                       save_hashes |-> FALSE, run_hooks |-> runHooks,
                       calls |-> SetupHookCalls(r, runHooks)]
    /\ budget' = [budget EXCEPT !.setups = @ - 1]
    /\ UNCHANGED <<fs, files, recorded, procs>>

InitSetupHooks ==
    /\ fs \in ServedTrees
    /\ files = [d \in Dirs |-> [n \in FileNames |-> 0]]
    /\ disk \in {[EmptyStore EXCEPT !.dir = b] : b \in BOOLEAN}
    /\ mgr \in FreshManagers(SetupKwargs)
    /\ last = [op |-> "init"]
    /\ recorded = EmptyDict
    /\ procs = NoProcs
    /\ budget = [setups |-> MaxSetups, edits |-> MaxEdits, starts |-> 0, acts |-> 0]

NextSetupHooks ==
    \/ \E runHooks \in BOOLEAN : RunSetupAndHooks(runHooks)
    \/ \E d \in Dirs, x \in {NoDir, CommentsToml} : EditManifest(d, x)

SpecSetupHooks == InitSetupHooks /\ [][NextSetupHooks]_vars

-----------------------------------------------------------------------------
(* Properties of setup *)

\* C1: a setup run that directly follows a setup run that returned normally,
\* with no change to the block directories in between, leaves the registry
\* as it was, raises nothing and returns requiresRestart = false.
C1_SetupIdempotent ==
    [][ (last.op = "setup" /\ last.exc = NoExc /\ budget'.setups < budget.setups)
            => /\ mgr'.info = mgr.info
               /\ last'.exc = NoExc
               /\ last'.ret = FALSE ]_vars

\* C2: a setup run never changes the value stored under a key of a block
\* that was already in registry.blocks, whatever the manifest now says; a
\* re-resolved block only gains keys.
C2_AdditiveMerge ==
    [][ (budget'.setups < budget.setups /\ "blocks" \in DOMAIN mgr.info)
            => \A i \in 1..Len(mgr.info.blocks) :
                  /\ ODHas(mgr'.info.blocks, mgr.info.blocks[i][1])
                  /\ \A k \in DOMAIN mgr.info.blocks[i][2] :
                        ODGet(mgr'.info.blocks, mgr.info.blocks[i][1])[k]
                            = mgr.info.blocks[i][2][k] ]_vars

\* The block "blog" was registered from a manifest without load_order, the
\* manifest was then edited to load_order 1 and is_main, and a later setup
\* resolved it again: the stored load_order is still the default, and the
\* new key is_main was added.
C2_Witness ==
    /\ last.op = "setup"
    /\ fs.dir["d1"] = BlogEditedToml
    /\ fs.dir["d2"] = NoDir
    /\ Len(last.events) = 1
    /\ last.events[1].registered
    /\ "blog" \in last.events[1].known
    /\ ODGet(mgr.info.blocks, "blog").load_order = DefaultLoadOrder
    /\ ODGet(mgr.info.blocks, "blog").is_main = TRUE

\* C3: every block name, install, extra_block_settings entry, templates_dir
\* entry and hook entry of the persisted document before a setup run is in
\* the persisted document after it.
C3_PersistedOnlyGrows ==
    [][ (budget'.setups < budget.setups /\ disk.doc # NoDoc)
            => /\ disk'.doc # NoDoc
               /\ \A k \in {"blocks", "installs", "extra_block_settings", "templates_dir"} :
                     k \in DOMAIN disk.doc.info =>
                        /\ k \in DOMAIN disk'.doc.info
                        /\ \A i \in 1..Len(disk.doc.info[k]) :
                              IF k = "blocks"
                              THEN ODHas(disk'.doc.info[k], disk.doc.info[k][i][1])
                              ELSE InList(disk.doc.info[k][i], disk'.doc.info[k])
               /\ "hooks" \in DOMAIN disk.doc.info =>
                     \A g \in DOMAIN disk.doc.info.hooks :
                        \A i \in 1..Len(disk.doc.info.hooks[g]) :
                           \A j \in 1..Len(disk.doc.info.hooks[g][i][2]) :
                              /\ "hooks" \in DOMAIN disk'.doc.info
                              /\ g \in DOMAIN disk'.doc.info.hooks
                              /\ ODHas(disk'.doc.info.hooks[g], disk.doc.info.hooks[g][i][1])
                              /\ InList(disk.doc.info.hooks[g][i][2][j],
                                        ODGet(disk'.doc.info.hooks[g],
                                              disk.doc.info.hooks[g][i][1])) ]_vars

\* C4 as stated: a block with a dependency that no earlier directory of the
\* same pass registered fails with MissingDependency, and a block all of
\* whose dependencies were registered earlier in the pass is registered.
C4_SamePassOnly ==
    last.op = "setup" =>
        \A i \in 1..Len(last.events) :
            LET e == last.events[i]
                before == {last.events[j].name :
                              j \in {n \in 1..(i - 1) : last.events[n].registered}}
            IN  IF e.deps \subseteq before
                THEN e.registered
                ELSE e.exc = "MissingDependency"

\* C4: resolving a block fails with MissingDependency exactly when one of
\* its declared dependencies is absent from registry.blocks at that moment,
\* whichever pass put the others there; otherwise the block is registered.
C4_MissingDependency ==
    last.op = "setup" =>
        \A i \in 1..Len(last.events) :
            LET e == last.events[i]
            IN  IF e.deps \subseteq e.known
                THEN e.registered /\ e.exc # "MissingDependency"
                ELSE ~e.registered /\ e.exc = "MissingDependency"

\* a block was resolved before the block it depends on, and failed
C4_Witness ==
    /\ last.op = "setup"
    /\ \E i \in 1..Len(last.events) :
          /\ "blog" \in last.events[i].deps
          /\ "blog" \notin last.events[i].known
          /\ last.events[i].exc = "MissingDependency"

\* C5: a setup pass in which some block declared a dependency that was
\* absent from registry.blocks when the block was resolved raises, and does
\* not reach the save of the registry.
C5_MissingDependencyFatal ==
    (/\ last.op = "setup"
     /\ \E i \in 1..Len(last.events) :
           ~(last.events[i].deps \subseteq last.events[i].known))
        => (last.exc # NoExc /\ ~last.saved)

\* C6: a setup pass in which an installation failed raises, and no
\* requirement's installation fails twice in one pass.
C6_InstallFailureFatal ==
    last.op = "setup" =>
        LET failed(i) == {k \in 1..Len(last.events[i].reqs) :
                            last.events[i].reqs[k].failed}
        IN  /\ (\E i \in 1..Len(last.events) : failed(i) # {}) => last.exc # NoExc
            /\ \A i, j \in 1..Len(last.events) :
                  \A k \in failed(i), l \in failed(j) :
                     last.events[i].reqs[k].req = last.events[j].reqs[l].req
                         => (i = j /\ k = l)

\* C7 as stated: for every requirement r of a block that was resolved, pip
\* was run for r if and only if r was not in registry.installs when the
\* block was resolved and allow_installs is set.
C7_AttemptedIffNew ==
    last.op = "setup" =>
        \A i \in 1..Len(last.events) :
            LET e == last.events[i]
            IN  e.registered =>
                    \A k \in 1..Len(e.requirements) :
                        (\E j \in 1..Len(e.reqs) :
                            e.reqs[j].req = e.requirements[k] /\ e.reqs[j].attempted)
                        <=> (e.requirements[k] \notin e.installs /\ mgr.allow_installs)

\* C7: the requirements of a resolved block are processed in order up to
\* the first installation that fails; for a requirement that is processed,
\* pip is run if and only if the requirement is not in registry.installs at
\* that moment and allow_installs is set.
C7_AttemptedWhenReached ==
    last.op = "setup" =>
        \A i \in 1..Len(last.events) :
            LET e == last.events[i]
            IN  e.registered =>
                    \A k \in 1..Len(e.requirements) :
                        IF \E j \in 1..(k - 1) : j <= Len(e.reqs) /\ e.reqs[j].failed
                        THEN k > Len(e.reqs)
                        ELSE /\ k <= Len(e.reqs)
                             /\ e.reqs[k].req = e.requirements[k]
                             /\ e.reqs[k].attempted
                                   <=> (~e.reqs[k].known /\ mgr.allow_installs)

\* one block had a new requirement installed and met another requirement
\* that was already in registry.installs, for which pip was not run
C7_Witness ==
    /\ last.op = "setup"
    /\ \E i \in 1..Len(last.events) :
          \E j, k \in 1..Len(last.events[i].reqs) :
             /\ last.events[i].reqs[j].attempted
             /\ last.events[i].reqs[k].known
             /\ ~last.events[i].reqs[k].attempted

\* C8: a setup run that returns normally after resolving a block with a
\* requirement that was not in registry.installs returns true.
C8_NewRequirementRestart ==
    (/\ last.op = "setup"
     /\ last.exc = NoExc
     /\ \E i \in 1..Len(last.events) :
           /\ last.events[i].registered
           /\ \E k \in 1..Len(last.events[i].requirements) :
                 last.events[i].requirements[k] \notin last.events[i].installs)
        => last.ret = TRUE

-----------------------------------------------------------------------------
(* Properties of the integrity verifier *)

\* C9: verify returns true when verification is disabled, when no digest
\* is recorded for the directory name, and when the recomputed digest is
\* the recorded one; it returns false only when a recorded digest differs.
C9_VerifyPasses ==
    last.op = "verify" =>
        LET path == BlockPath(last.dir)
            known == Basename(path) \in DOMAIN ReadHashes(disk)
            same == /\ known
                    /\ IsBlockDir(fs, path)
                    /\ DirHash(fs, files, path) = ReadHashes(disk)[Basename(path)]
        IN  /\ (~mgr.verify_blocks \/ ~known \/ same)
                  => (last.exc = NoExc /\ last.ret = TRUE)
            /\ (last.exc = NoExc /\ last.ret = FALSE)
                  => (mgr.verify_blocks /\ known /\ IsBlockDir(fs, path) /\ ~same)

\* verification is on, block_hashes.json exists and has no entry for the
\* directory: verify passes it
C9_Witness ==
    /\ last.op = "verify"
    /\ mgr.verify_blocks
    /\ disk.hashes # NoFile
    /\ Basename(BlockPath(last.dir)) \notin DOMAIN ReadHashes(disk)
    /\ last.ret = TRUE

\* C10: with verification on, verify of a directory whose digest was
\* stored returns true if and only if block_config.toml and every *.py,
\* *.html and *.js file of the directory have the content they had when
\* the digest was stored.
C10_TrackedFilesDecide ==
    (/\ last.op = "verify"
     /\ mgr.verify_blocks
     /\ Basename(BlockPath(last.dir)) \in DOMAIN recorded
     /\ IsBlockDir(fs, BlockPath(last.dir)))
        => LET then == recorded[Basename(BlockPath(last.dir))]
           IN  /\ last.exc = NoExc
               /\ last.ret = TRUE
                     <=> /\ fs.dir[last.dir] = then.toml
                         /\ \A n \in {"py", "html", "js"} :
                               files[last.dir][n] = then.files[n]

\* a template of a hashed directory was rewritten, and verify fails
C10_Witness ==
    /\ last.op = "verify"
    /\ mgr.verify_blocks
    /\ Basename(BlockPath(last.dir)) \in DOMAIN recorded
    /\ IsBlockDir(fs, BlockPath(last.dir))
    /\ files[last.dir]["html"] # recorded[Basename(BlockPath(last.dir))].files["html"]
    /\ last.exc = NoExc
    /\ last.ret = FALSE

-----------------------------------------------------------------------------
(* Properties of the hook registry *)

\* C14: an attach reports a new hook exactly when one of the (module,
\* function name) pairs it was given was not yet recorded under the group,
\* so attaching a recorded pair again reports nothing new, whichever
\* function object carries the name; afterwards every pair it was given is
\* recorded exactly once under its module.
C14_AttachOnce ==
    (last.op = "attach" /\ last.exc = NoExc) =>
        LET now == HooksOf(mgr.info, last.group)
            had(h) == /\ ODHas(last.before, h.module)
                      /\ InList(h.fn, ODGet(last.before, h.module))
        IN  /\ last.ret <=> \E i \in 1..Len(last.hooks) : ~had(last.hooks[i])
            /\ \A i \in 1..Len(last.hooks) :
                  /\ ODHas(now, last.hooks[i].module)
                  /\ Cardinality({k \in 1..Len(ODGet(now, last.hooks[i].module)) :
                        ODGet(now, last.hooks[i].module)[k] = last.hooks[i].fn}) = 1
                  /\ Cardinality({k \in 1..Len(now) :
                        now[k][1] = last.hooks[i].module}) = 1

\* a recorded pair is attached again, twice in one call by two function
\* objects, and the call reports nothing new
C14_Witness ==
    /\ last.op = "attach"
    /\ last.exc = NoExc
    /\ Len(last.hooks) = 2
    /\ last.hooks[1].module = last.hooks[2].module
    /\ last.hooks[1].fn = last.hooks[2].fn
    /\ last.hooks[1].obj # last.hooks[2].obj
    /\ ODHas(last.before, last.hooks[1].module)
    /\ InList(last.hooks[1].fn, ODGet(last.before, last.hooks[1].module))
    /\ last.ret = FALSE

\* C15: resolve returns exactly the recorded (module, function) entries
\* whose module can be imported and whose attribute exists and is callable,
\* each once: an entry that cannot be resolved never drops another one.
C15_ResolveSkipsOnlyBad ==
    last.op = "resolve" =>
        LET hooks == HooksOf(mgr.info, last.group)
            entries == UNION {{[module |-> hooks[i][1], fn |-> hooks[i][2][k]] :
                                  k \in 1..Len(hooks[i][2])} : i \in 1..Len(hooks)}
            good == {h \in entries : /\ h.module \notin last.code.missing
                                     /\ h \notin last.code.gone
                                     /\ h \notin last.code.notcallable}
        IN  /\ {last.ret[i] : i \in 1..Len(last.ret)} = good
            /\ Len(last.ret) = Cardinality(good)

-----------------------------------------------------------------------------
(* Properties of init_app *)

\* the positions of last.events where a verification returned false
FailedVerifications ==
    {i \in 1..Len(last.events) :
        /\ last.events[i].step = "verify"
        /\ last.events[i].exc = NoExc
        /\ ~last.events[i].ok}

\* C11: with verification on, a block whose verification returns false is
\* never activated: init_app does nothing else for it (no preload hook, no
\* static mount, no router, no postload hook), processes no later block,
\* raises nothing, and the host app never gets the aggregated routers: the
\* process ends there.
C11_MismatchHalts ==
    last.op = "activate" /\ last.verify =>
        \A i \in FailedVerifications :
            /\ i = Len(last.events)
            /\ \A j \in 1..Len(last.events) :
                   j # i => last.events[j].block # last.events[i].block
            /\ ~InList(last.events[i].block, last.app.mounts)
            /\ last.outcome = "exited"
            /\ last.exc = NoExc
            /\ last.app.routers = <<>>
            /\ mgr = NoMgr

\* a first block that fails verification while a second one is registered
C11_Witness ==
    /\ last.op = "activate" /\ last.verify
    /\ FailedVerifications # {}
    /\ last.outcome = "exited"
    /\ \E k \in 1..Len(last.blocks) :
           \A j \in 1..Len(last.events) : last.events[j].block # last.blocks[k][1]

\* C12: a hash mismatch found by init_app ends the process with an exit
\* status that is not zero.
C12_MismatchExitsNonZero ==
    last.op = "activate" /\ FailedVerifications # {} =>
        last.outcome = "exited" /\ last.code # 0

\* C13: block_hashes.json changes only when saving is asked for: a setup
\* with save_hashes off, init_app and _verify_block_hash all leave the file
\* as it was.
C13_HashesOnlyOnRequest ==
    [][(\/ last'.op \in {"activate", "verify"}
        \/ (last'.op = "setup" /\ ~last'.save_hashes))
       => disk'.hashes = disk.hashes]_vars

\* a block without a digest was verified and activated by init_app, and
\* has no digest afterwards either
C13_Witness ==
    /\ last.op = "activate" /\ last.verify /\ last.outcome = "returned"
    /\ \E i \in 1..Len(last.events) :
           /\ last.events[i].step = "postload"
           /\ \E k \in 1..Len(last.blocks) :
                  /\ last.blocks[k][1] = last.events[i].block
                  /\ Basename(last.blocks[k][2].block_path)
                        \notin DOMAIN ReadHashes(disk)

\* the positions, in the order init_app processes the blocks, of the blocks
\* whose settings.py is the module
LoadRanks(blocks, module) ==
    {k \in 1..Len(blocks) :
        /\ "extra_block_settings" \in DOMAIN SortedByLoadOrder(blocks)[k][2]
        /\ SortedByLoadOrder(blocks)[k][2].extra_block_settings = module}

\* C16: the hooks of a group are called in the order they were registered,
\* each with the same keyword arguments, and that order is the order in
\* which the blocks, taken in ascending load_order, first brought them in.
C16_HooksInLoadOrder ==
    last.op = "activate" =>
        /\ \A i \in 1..Len(last.starts) :
               last.starts[i].kwargs = [blocks_infos |-> last.blocks]
        /\ \A i, j \in 1..Len(last.starts) :
               i < j =>
                   \A a \in LoadRanks(last.blocks, last.starts[i].hook.module),
                      b \in LoadRanks(last.blocks, last.starts[j].hook.module) :
                       a <= b

\* C17: init_app processes the registered blocks in ascending load_order,
\* and blocks of equal load_order in the order they were registered.
C17_AscendingLoadOrder ==
    last.op = "activate" =>
        \A i, j \in 1..Len(last.events) :
            i < j =>
                \A a, b \in 1..Len(last.blocks) :
                    (/\ last.blocks[a][1] = last.events[i].block
                     /\ last.blocks[b][1] = last.events[j].block
                     /\ a # b)
                    => \/ last.blocks[a][2].load_order < last.blocks[b][2].load_order
                       \/ /\ last.blocks[a][2].load_order = last.blocks[b][2].load_order
                          /\ a < b

\* the block registered second has the smaller load_order and went first
C17_Witness ==
    /\ last.op = "activate"
    /\ \E i, j \in 1..Len(last.events) :
           /\ i < j
           /\ \E a, b \in 1..Len(last.blocks) :
                  /\ last.blocks[a][1] = last.events[i].block
                  /\ last.blocks[b][1] = last.events[j].block
                  /\ b < a
                  /\ last.blocks[a][2].load_order < last.blocks[b][2].load_order

\* the steps of the loop body in the order of the code
StepOrder ==
    <<"verify", "prep", "preload", "statics", "template_router", "api_router",
      "postload">>

StepRank(step) == CHOOSE k \in 1..Len(StepOrder) : StepOrder[k] = step

\* the positions of last.events that belong to the block
EventsOf(name) == {i \in 1..Len(last.events) : last.events[i].block = name}

\* C18: for each block init_app verifies the hash (when verification is
\* on), runs the preload hooks, mounts the static folder if its path
\* exists, mounts the template router, mounts the API router and runs the
\* postload hooks, in that order; once a step has raised nothing more is
\* done for the block, so its postload hooks do not run.
C18_StepOrder ==
    last.op = "activate" =>
        \A i \in 1..Len(last.events) :
            /\ \A j \in EventsOf(last.events[i].block) :
                   i < j => /\ StepRank(last.events[i].step) < StepRank(last.events[j].step)
                            /\ last.events[i].exc = NoExc
            /\ last.verify =>
                   \E j \in EventsOf(last.events[i].block) :
                       j <= i /\ last.events[j].step = "verify"
            /\ last.events[i].step = "statics" =>
                   \E k \in 1..Len(last.blocks) :
                       /\ last.blocks[k][1] = last.events[i].block
                       /\ last.blocks[k][2].statics \in last.env.statics
            /\ last.events[i].step = "postload" =>
                   \E j \in EventsOf(last.events[i].block) :
                       j < i /\ last.events[j].step = "preload"

\* one block went through all six steps, and the preload hook of another
\* raised
C18_Witness ==
    /\ last.op = "activate" /\ last.verify
    /\ \E name \in {"blog", "comments"} :
           {last.events[i].step : i \in EventsOf(name)}
               = {StepOrder[k] : k \in 1..Len(StepOrder)}
    /\ \E i \in 1..Len(last.events) :
           last.events[i].step = "preload" /\ last.events[i].exc # NoExc

\* the positions of last.events where a step of the try body raised
FailedSteps ==
    {i \in 1..Len(last.events) :
        /\ last.events[i].exc # NoExc
        /\ last.events[i].step \in {"preload", "template_router", "api_router",
                                    "postload"}}

\* C19: when a hook raises or a router module fails to import while a block
\* is activated, then with allow_block_import_failure off init_app raises:
\* no later block is processed and the host app does not get the aggregated
\* routers; with it on, the failure is logged, nothing more is done for
\* that block, the loop goes on with the other blocks and init_app returns
\* with the routers added (unless a later block fails its verification).
C19_FailurePolicy ==
    last.op = "activate" =>
        \A i \in FailedSteps :
            /\ \A j \in EventsOf(last.events[i].block) : j <= i
            /\ ~last.allowFail =>
                   /\ i = Len(last.events)
                   /\ last.outcome = "raised"
                   /\ last.exc = last.events[i].exc
                   /\ last.app.routers = <<>>
            /\ (last.allowFail /\ FailedVerifications = {}) =>
                   /\ last.outcome = "returned"
                   /\ last.exc = NoExc
                   /\ last.app.routers # <<>>
                   /\ \A k \in 1..Len(last.blocks) : EventsOf(last.blocks[k][1]) # {}

\* with the failures allowed, a step of one block raised and a later block
\* was activated down to its postload hooks
C19_Witness ==
    /\ last.op = "activate" /\ last.allowFail /\ last.outcome = "returned"
    /\ \E i \in FailedSteps :
           \E j \in 1..Len(last.events) :
               /\ i < j
               /\ last.events[j].block # last.events[i].block
               /\ last.events[j].step = "postload"
               /\ last.events[j].exc = NoExc

\* the positions of last.events where a router module was imported and
\* had no router to mount
MissingRouters ==
    {i \in 1..Len(last.events) :
        /\ last.events[i].step \in {"template_router", "api_router"}
        /\ last.events[i].exc = NoExc
        /\ ~last.events[i].ok}

\* C20: a declared router module that imports but has no `router` that is
\* an APIRouter makes init_app fail when allow_block_import_failure is off;
\* when it is on, the block is skipped: nothing more is done for it.
C20_MissingRouterFails ==
    last.op = "activate" =>
        \A i \in MissingRouters :
            /\ ~last.allowFail => last.outcome = "raised" /\ i = Len(last.events)
            /\ last.allowFail => \A j \in EventsOf(last.events[i].block) : j <= i

\* how often the module is in the list of routers
Occurrences(routers, module) ==
    Cardinality({i \in 1..Len(routers) : routers[i] = module})

\* C21: init_app can be completed once per driver: a later call mounts no
\* router again, so after any number of calls the host app has the router
\* of every block once.
C21_MountedOnce ==
    (last.op = "activate" /\ last.outcome = "returned") =>
        \A k \in 1..Len(last.app.routers) :
            \A i \in 1..Len(last.app.routers[k]) :
                Occurrences(last.app.routers[k], last.app.routers[k][i]) = 1

-----------------------------------------------------------------------------
(* Properties of the constructor, the registry document and the singleton *)

C23_LegacyLoad ==
    [][/\ (last'.op = "start" /\ ~last'.lateLoad /\ disk.doc # NoDoc) =>
              /\ last'.exc = NoExc
              /\ mgr' # NoMgr
              /\ {"blocks", "installs", "extra_block_settings", "templates_dir",
                  "hooks", "settings"} \subseteq DOMAIN mgr'.info
       /\ last'.op \in {"setup", "activate"} => last'.exc # "KeyError"]_vars

\* C24: _save_settings_toml creates the state directory if it is absent,
\* and whatever happens during the write, block_infos.toml is afterwards
\* either the whole document it was before or the whole registry of the
\* driver, never a part of one.
C24_SaveAtomic ==
    [][(last'.op = "setup" /\ last'.saved) =>
          /\ disk'.dir
          /\ \/ disk'.doc = disk.doc
             \/ disk'.doc = [exists |-> TRUE, info |-> mgr'.info]]_vars

C26_SingleInstance ==
    procs # NoProcs =>
        /\ procs.built <= 1
        /\ \A t \in Threads :
               procs.pc[t] = "done" =>
                   /\ procs.got[t] # 0
                   /\ procs.built = 1
                   /\ \A u \in Threads :
                          procs.pc[u] = "done" => procs.got[u] = procs.got[t]
        /\ ((\E t \in Threads : procs.pc[t] = "done")
               /\ (\A t \in Threads : procs.pc[t] # "raised"))
              => procs.runs = 1

\* every thread has called and has its instance
C26_Witness ==
    /\ procs # NoProcs
    /\ \A t \in Threads : procs.pc[t] = "done"
    /\ procs.runs = 1

(* Properties of two setups that run at once *)

\* the keys of block_hashes.json
HashKeys(store) == DOMAIN ReadHashes(store)

\* C27: two processes that run setup at once can lose an update.  A write
\* of block_hashes.json leaves the file with exactly the hashes the writer
\* read earlier and its own entry, whatever the other process wrote in
\* between; the witness is the state where an entry one process wrote is
\* gone from the file.
C27_LastWriterWins ==
    [][\A p \in Processes :
          (last'.op = "save_hashes" /\ last'.process = p /\ last'.step = "write"
              /\ procs'.pc[p] = "scan")
          => HashKeys(disk') = HashKeys([disk EXCEPT !.hashes =
                                   [exists |-> TRUE, map |-> procs.copy[p]]])
                                  \cup (procs'.wrote[p] \ procs.wrote[p])]_vars

\* both processes are done and an entry that was written is not in the file
C27_Witness ==
    /\ procs # NoProcs
    /\ \A p \in Processes : procs.pc[p] = "done"
    /\ \E p \in Processes : ~(procs.wrote[p] \subseteq HashKeys(disk))

(* Properties of the saved settings *)

\* C28: allow_installs, blocks_folder and verify_blocks survive a restart:
\* when a driver has saved its settings and the next driver is constructed
\* with the default arguments, the new driver has the three values of the
\* one that saved.
C28_SettingsSurvive ==
    [][\A kwargs \in DefaultKwargs :
          (last.op = "save" /\ last.exc = NoExc /\ Start(FALSE, kwargs))
          => /\ last'.exc = NoExc
             /\ mgr'.allow_installs = mgr.allow_installs
             /\ mgr'.blocks_folder = mgr.blocks_folder
             /\ mgr'.verify_blocks = mgr.verify_blocks]_vars

\* a driver constructed after a save holds a folder and flags that are not
\* the defaults
C28_Witness ==
    /\ last.op = "start" /\ ~last.lateLoad /\ last.exc = NoExc
    /\ mgr # NoMgr
    /\ mgr.blocks_folder = PluginsFolder
    /\ mgr.verify_blocks /\ mgr.allow_installs /\ ~mgr.allow_block_import_failure
    /\ disk.doc # NoDoc
    /\ disk.doc.info.settings =
          [allow_installs |-> TRUE, blocks_folder |-> PluginsFolder, verify_blocks |-> TRUE]

(* Properties of the manifest schema *)

\* the characters of the names that manifests carry
Chars(name) ==
    CASE name = "blog" -> <<"b", "l", "o", "g">>
      [] name = "comments" -> <<"c", "o", "m", "m", "e", "n", "t", "s">>
      [] name = "ab" -> <<"a", "b">>
      [] name = "my-block" -> <<"m", "y", "-", "b", "l", "o", "c", "k">>

WordChars ==
    {"a", "b", "c", "d", "e", "f", "g", "h", "i", "j", "k", "l", "m", "n", "o",
     "p", "q", "r", "s", "t", "u", "v", "w", "x", "y", "z", "_",
     "0", "1", "2", "3", "4", "5", "6", "7", "8", "9"}

\* 3 to 32 characters, each a letter, a digit or an underscore
ValidName(name) ==
    /\ Len(Chars(name)) \in 3..32
    /\ \A i \in 1..Len(Chars(name)) : Chars(name)[i] \in WordChars

\* C29: a manifest whose name is not 3 to 32 letters, digits and
\* underscores is rejected with a ValidationError, and no block with such
\* a name is in the blocks of the registry or of the registry document.
C29_BadNameRejected ==
    /\ (mgr # NoMgr /\ "blocks" \in DOMAIN mgr.info)
          => \A name \in ODKeys(mgr.info.blocks) : ValidName(name)
    /\ (disk.doc # NoDoc /\ "blocks" \in DOMAIN disk.doc.info)
          => \A name \in ODKeys(disk.doc.info.blocks) : ValidName(name)
    /\ last.op = "setup"
          => \A i \in 1..Len(last.events) :
                ~ValidName(fs.dir[last.events[i].dir].name)
                    => last.events[i].exc = "ValidationError"

\* C30: when the dictionary that get_dict gave for a manifest is parsed
\* again with the same block_path, get_dict of the new record equals that
\* dictionary: statics, templates_dir, template_router, api_router,
\* extra_block_settings and module are the same after a second cycle.
C30_RoundTripStable ==
    (last.op = "get_dict" /\ last.cycle >= 2) => last.raw = last.first

(* Properties of the composite schema and of resolution *)

\* the extension modules the registry records that cannot be imported now
BadExtensions(info, tree) ==
    IF "extra_block_settings" \notin DOMAIN info THEN {}
    ELSE {info.extra_block_settings[i] : i \in 1..Len(info.extra_block_settings)}
             \ ({None} \cup {ref \in {SettingsModule(d) : d \in Dirs} :
                                 ModuleExists(tree, ref)})

\* C31: an extension module recorded in extra_block_settings that fails to
\* import is skipped: a setup that starts with such a module recorded does
\* not end with the import error, and goes on to resolve the blocks.
C31_BadExtensionSkipped ==
    [][(last'.op = "setup" /\ mgr # NoMgr /\ BadExtensions(mgr.info, fs) # {})
          => last'.exc # "ImportError"]_vars

\* the block directories whose resolution against the registry as it is
\* now fails with a missing dependancy
Unresolvable ==
    IF mgr = NoMgr \/ ~fs.exists THEN {}
    ELSE {d \in Dirs :
            /\ fs.dir[d] # NoDir
            /\ LoadBlockConfig(mgr.info, d, fs.dir[d], mgr.allow_installs, {}).exc
                   = "MissingDependency"}

\* C32: a resolution that fails with a missing dependancy changes nothing:
\* the registry it leaves, blocks, installs, extra_block_settings and
\* templates_dir included, is the registry it started from.
C32_FailedResolutionChangesNothing ==
    \A d \in Unresolvable :
        LoadBlockConfig(mgr.info, d, fs.dir[d], mgr.allow_installs, {}).info = mgr.info

\* a setup met a block with a missing dependancy, which is not registered
C32_Witness ==
    /\ last.op = "setup"
    /\ \E i \in 1..Len(last.events) :
          /\ last.events[i].exc = "MissingDependency"
          /\ last.events[i].dir \in Unresolvable
          /\ last.events[i].name \notin ODKeys(mgr.info.blocks)
          /\ last.events[i].requirements # <<>>

\* the requirements of the stored records that installs does not hold
Uninstalled(info) ==
    {r \in UNION {{info.blocks[i][2].requirements[j] :
                      j \in 1..Len(info.blocks[i][2].requirements)} :
                  i \in 1..Len(info.blocks)} :
        ~InList(r, info.installs)}

\* C33: after a setup that returns normally, every requirement of every
\* stored record of blocks is in installs.
C33_RequirementsRecorded ==
    (last.op = "setup" /\ last.exc = NoExc) => Uninstalled(mgr.info) = {}

\* the requirements the registry records
Installs(info) ==
    IF "installs" \in DOMAIN info
    THEN {info.installs[i] : i \in 1..Len(info.installs)}
    ELSE {}

\* C34: a requirement is recorded in installs whether or not its
\* installation is attempted or succeeds, and a requirement the registry
\* records when a setup starts is not installed by that setup, even with
\* allow_installs enabled.
C34_RecordedNeverInstalled ==
    [][last'.op = "setup" =>
          \A i \in 1..Len(last'.events) :
              \A j \in 1..Len(last'.events[i].reqs) :
                  /\ last'.events[i].reqs[j].req \in Installs(mgr'.info)
                  /\ last'.events[i].reqs[j].attempted
                        => last'.events[i].reqs[j].req \notin Installs(mgr.info)]_vars

\* a driver that allows installs, started on a document that records a
\* requirement, ran setup and did not try to install it
C34_Witness ==
    /\ last.op = "setup"
    /\ mgr.allow_installs
    /\ budget.starts < MaxStarts
    /\ \E i \in 1..Len(last.events) :
          \E j \in 1..Len(last.events[i].reqs) :
              /\ last.events[i].reqs[j].known
              /\ last.events[i].reqs[j].allow
              /\ ~last.events[i].reqs[j].attempted

(* Properties of a setup that raises *)

\* the failures of _setup_blocks
SetupFailures == {"NoBlocksFolder", "MissingDependency", "InstallFailure"}

\* the names the registry holds records for
BlockNames(info) == IF "blocks" \in DOMAIN info THEN ODKeys(info.blocks) ELSE {}

C36_LaterCallsReturnInstance ==
    [][(procs # NoProcs /\ procs.instance # 0) =>
          /\ mgr' = mgr
          /\ procs'.instance = procs.instance
          /\ procs'.runs = procs.runs
          /\ procs'.built = procs.built]_vars

\* a call that began after another call had returned the instance has
\* returned the same instance
C36_Witness ==
    /\ procs # NoProcs
    /\ last.op = "call" /\ last.step = "return"
    /\ procs.got[last.thread] = procs.instance
    /\ procs.built = 1
    /\ \E u \in Threads \ {last.thread} :
          procs.pc[u] = "done" /\ procs.got[u] = procs.instance
    /\ \E u \in Threads : procs.pc[u] = "call"

\* C37: a construction that fails registers no instance and gives the
\* lock back: the thread whose constructor raised holds neither the lock
\* nor an instance, the lock is only ever with a thread inside the with
\* block, and while no construction has completed there is no instance.
C37_FailedConstructionLeavesNothing ==
    procs # NoProcs =>
        /\ \A t \in Threads :
               procs.pc[t] = "raised" => procs.lock # t /\ procs.got[t] = 0
        /\ procs.lock # NoThread
              => procs.pc[procs.lock] \in {"check", "construct", "release"}
        /\ procs.built = 0 => procs.instance = 0 /\ mgr = NoMgr

\* after a construction that failed, a later call ran the constructor
\* body again and got the instance
C37_Witness ==
    /\ procs # NoProcs
    /\ \E t \in Threads : procs.pc[t] = "raised"
    /\ \E u \in Threads : procs.pc[u] = "done" /\ procs.got[u] = procs.instance
    /\ procs.built = 1 /\ procs.runs >= 2
    /\ mgr # NoMgr
    /\ procs.lock = NoThread

(* Properties of two directories with one name *)

\* what get_dict gives for the manifest of a directory
DictOf(tree, d) == GetDict(BlockSettingsBase(tree.dir[d], BlockPath(d)))

\* the pairs of events of a setup in which two directories resolved under
\* one name that the registry did not know before
SameNamePairs(events) ==
    {p \in (1..Len(events)) \X (1..Len(events)) :
        /\ p[1] < p[2]
        /\ events[p[1]].name = events[p[2]].name
        /\ events[p[1]].exc = NoExc /\ events[p[2]].exc = NoExc
        /\ events[p[1]].name \notin events[p[1]].known}

\* C38: when two block directories declare the same name in one setup,
\* blocks holds one record under that name with the field values of the
\* directory resolved first, and the requirements, the settings module and
\* the templates directory of the second are in the global lists.
C38_FirstDirectoryWins ==
    [][last'.op = "setup" =>
          \A p \in SameNamePairs(last'.events) :
              /\ Cardinality({i \in 1..Len(mgr'.info.blocks) :
                                mgr'.info.blocks[i][1] = last'.events[p[1]].name}) = 1
              /\ \A k \in DOMAIN DictOf(fs, last'.events[p[1]].dir) :
                    ODGet(mgr'.info.blocks, last'.events[p[1]].name)[k]
                        = DictOf(fs, last'.events[p[1]].dir)[k]
              /\ \A j \in 1..Len(last'.events[p[2]].requirements) :
                    last'.events[p[2]].requirements[j] \in Installs(mgr'.info)
              /\ InList(DictOf(fs, last'.events[p[2]].dir).extra_block_settings,
                        mgr'.info.extra_block_settings)
              /\ InList(DictOf(fs, last'.events[p[2]].dir).templates_dir,
                        mgr'.info.templates_dir)]_vars

\* two directories named alike were resolved, and the second one's
\* requirements and load order differ from the record's
C38_Witness ==
    /\ last.op = "setup" /\ last.exc = NoExc
    /\ \E p \in SameNamePairs(last.events) :
          /\ DictOf(fs, last.events[p[2]].dir).requirements
                # ODGet(mgr.info.blocks, last.events[p[1]].name).requirements
          /\ DictOf(fs, last.events[p[2]].dir).load_order
                # ODGet(mgr.info.blocks, last.events[p[1]].name).load_order
          /\ DictOf(fs, last.events[p[2]].dir).templates_dir
                # DictOf(fs, last.events[p[1]].dir).templates_dir

(* Properties of the order of init_app *)

\* the positions of the events init_app logged for the block
StepsOf(events, name) == {i \in 1..Len(events) : events[i].block = name}

\* the block is done with at position i: its last event lies before i, and
\* is its postload step or the step that raised
DoneBefore(events, name, i) ==
    \E k \in StepsOf(events, name) :
        /\ k < i
        /\ \A j \in StepsOf(events, name) : j <= k
        /\ events[k].step = "postload" \/ events[k].exc # NoExc

\* C39: init_app runs every start hook before it verifies any block, and
\* is done with each block earlier in load order (its hooks run, its
\* statics and routers mounted) before it verifies a later one; so a
\* mismatch on a later block ends the process after all of that.
C39_VerifyAfterEarlierBlocks ==
    [][last'.op = "activate" =>
          /\ last'.events # <<>> =>
                /\ Len(last'.starts)
                      = Len(ResolveHooks(HooksOf(mgr.info, "_start_hooks"),
                                         last'.env.code))
                /\ \A i \in 1..Len(last'.starts) :
                      [hook |-> last'.starts[i].hook, on |-> "start"]
                          \notin last'.env.raising
          /\ \A i \in 1..Len(last'.events) :
                last'.events[i].step = "verify" =>
                    \A j \in 1..(i - 1) :
                        /\ last'.events[j].block # last'.events[i].block
                        /\ DoneBefore(last'.events, last'.events[j].block, i)]_vars

\* the second block in load order failed verification after the start
\* hooks had run and the first block had been activated and mounted
C39_Witness ==
    /\ last.op = "activate" /\ last.outcome = "exited"
    /\ last.starts # <<>>
    /\ last.app.mounts # <<>>
    /\ Len(last.events) > 1
    /\ last.events[Len(last.events)].step = "verify"
    /\ ~last.events[Len(last.events)].ok
    /\ \E j \in 1..Len(last.events) :
          last.events[j].step = "postload" /\ last.events[j].exc = NoExc

(* Properties of the setup hooks *)

\* C40: setup runs no setup hook, whatever run_hooks says: the hooks that
\* blocks contribute are recorded under _setup_hooks in the registry and
\* saved with it, and the list setup runs after the save is never filled
\* from them.
C40_SetupHooksNeverRun ==
    (last.op = "setup" /\ "calls" \in DOMAIN last) =>
        /\ last.calls = <<>>
        /\ (last.exc = NoExc /\ disk.doc # NoDoc)
              => /\ last.saved
                 /\ HooksOf(disk.doc.info, "_setup_hooks")
                       = HooksOf(mgr.info, "_setup_hooks")

\* a setup asked to run hooks saved a registry that records a setup hook
C40_Witness ==
    /\ last.op = "setup" /\ "calls" \in DOMAIN last
    /\ last.run_hooks /\ last.exc = NoExc /\ last.saved
    /\ disk.doc # NoDoc
    /\ HooksOf(disk.doc.info, "_setup_hooks") # <<>>
    /\ HooksSetupFromRegistry(mgr.info) # <<>>

====
